---- MODULE Spec2Model ----
(***************************************************************************)
(* TenLib: resumable book translation pipeline.                            *)
(*                                                                         *)
(* State machine of one book processed by one Orchestrator over one        *)
(* Repository (SQLite) and one Router with a priority list of adapters.    *)
(* Store rows are modelled field by field; confidences are in hundredths   *)
(* (0.75 is 75); time is in seconds.                                       *)
(***************************************************************************)
EXTENDS Integers, Sequences, FiniteSets, TLC

\* ------------------------------------------------------------------
\* Bounds of the model
\* ------------------------------------------------------------------
MaxChunks == 2
MaxTime == 300
\* tokens recorded per model, and bible rows written, by the sessions sharing a database
MaxUsage == 2
MaxVersions == 3
\* chunks of the book of an interrupted run, and how often it is interrupted
MaxBookChunks == 6
MaxInterruptions == 2
\* apply calls on one bible
MaxApplies == 2

\* ------------------------------------------------------------------
\* Program constants
\* ------------------------------------------------------------------
CooldownSeconds == 300
ConfidenceThreshold == 75
_EXTRACT_EVERY_N == 5
_MAX_GLOSSARY_ENTRIES == 600
_MAX_CHARACTER_ENTRIES == 240
_MAX_DECISIONS_ENTRIES == 18
_MAX_LAST_SCENE_CHARS == 420
_MAX_DECISION_CHARS == 220

\* Adapters in the order load_model_configs returns them (priority ascending).
Models == <<"claude", "gemini">>
NModels == Len(Models)

\* daily_token_limit of every ModelConfig of the modelled configuration.
DailyTokenLimit == [m \in 1..NModels |-> 1]

\* Values drawn for the environment's answers.
TickDeltas == {300}
ConfidenceChoices == {74, 75}
TokenChoices == {1}
IncrementChoices == {1, 2}
ContentErrorTypes == {"BadRequestError"}
StepErrorTypes == {"RuntimeError"}

NULL == "NULL"
NoConfidence == -1
NoCooldown == -1

PENDING == "pending"
DONE == "done"
FLAGGED == "flagged"
REVIEWED == "reviewed"
ChunkStatus == {PENDING, DONE, FLAGGED, REVIEWED}

NO_BOOK == "no_book"
IN_PROGRESS == "in_progress"
REVIEW == "review"
BOOK_DONE == "done"
BookStatus == {IN_PROGRESS, REVIEW, BOOK_DONE}

BookMode == {"translate", "fix", "fix_style"}

VARIABLES
    mode,               \* which entry point owns the book's content hash
    nChunks,            \* number of chunks the chunker yields for the input
    useExtractor,       \* TRUE: BibleExtractor(model=router); FALSE: _NoopBibleExtractor
    bookStatus,         \* books.status of the book's row, NO_BOOK when no row
    chunks,             \* chunks rows of the book, ordered by chunk_index
    bibleRows,          \* bible rows of the book: sequence of versions
    quota,              \* quota_usage.tokens_used for (model, today)
    now,                \* time.time()
    unavailable_until,  \* ModelConfig._unavailable_until per adapter
    since_last_extract, \* BibleExtractor._chunks_since_last_extract
    pc,                 \* position of the running entry point
    was_resumed,
    pending,            \* snapshot returned by get_pending_chunks
    i,                  \* position of the loop in pending (1-based)
    flagged_ids,
    response,           \* ModelResponse of the current chunk
    exc,                \* exception being handled for the current chunk
    routerFor,          \* caller of the running Router.translate
    routerJ,            \* adapter the router loop is at
    calls,              \* history: adapter calls of the running Router.translate
    routerResult,       \* history: how the last Router.translate ended
    outcome,            \* how the last entry point invocation ended
    ameChunk,           \* history: chunk at whose translation AllModelsExhausted was raised
    trCalls,            \* history: translation-step router calls per chunk in this run
    routerCalls,        \* history: Router.translate calls in this run
    startStatus,        \* history: chunk statuses when the run fetched its pending list
    sharedDb,           \* one database file used by several processes at once
    sessions,           \* per process: position inside a repository call, its locals
    tokensAdded,        \* history: sum of the increments passed to add_token_usage
    resaved,            \* history: save_chunks was repeated over processed rows
    book_notes,         \* per chunk: the translator's notes hold an extraction keyword
    processed,          \* number of chunks stored as translated (no longer PENDING)
    extract_counter,    \* BibleExtractor._chunks_since_last_extract of the live process
    bible_saved,        \* bible rows: the content stored with each version
    translated_with,    \* per stored translation: the bible its prompt was built from
    interruptions,      \* history: how often the run was interrupted and re-invoked
    bible,              \* a BookBible object
    applies,            \* number of apply calls made on it
    last_update,        \* history: the BibleUpdate of the latest apply (index in Updates)
    last_extracted,     \* history: the extractor's update merged by the latest apply
    chunker,            \* one Chunker.chunk call: its input, its config, its result
    parser,             \* one model reply, the ModelResponse and the chunk row made of it
    extractor,          \* one BibleExtractor object and its latest extract call
    reconstructor       \* one Reconstructor.build call: the rows it read, its parts

\* one pipeline over its own database
pipelineVars == <<mode, nChunks, useExtractor, bookStatus, chunks, bibleRows, quota, now,
                  unavailable_until, since_last_extract, pc, was_resumed, pending, i,
                  flagged_ids, response, exc, routerFor, routerJ, calls, routerResult,
                  outcome, ameChunk, trCalls, routerCalls, startStatus>>

\* several processes over one database
storeVars == <<sharedDb, sessions, tokensAdded, resaved>>

\* one run that may be interrupted between chunks and re-invoked
resumeVars == <<book_notes, processed, extract_counter, bible_saved, translated_with,
                interruptions>>

\* one BookBible and the updates applied to it
bibleVars == <<bible, applies, last_update, last_extracted>>

\* one call of the chunker on a section's text
chunkerVars == <<chunker>>

\* one reply parsed by an adapter and stored by the orchestrator
parserVars == <<parser>>

\* one BibleExtractor called chunk after chunk
extractorVars == <<extractor>>

\* one Reconstructor.build over the stored rows of a book
reconstructorVars == <<reconstructor>>

scenarioVars == <<storeVars, resumeVars, bibleVars, chunkerVars, parserVars,
                  extractorVars, reconstructorVars>>

vars == <<pipelineVars, scenarioVars>>

dbVars == <<bookStatus, chunks, bibleRows, quota>>
cfgVars == <<mode, nChunks, useExtractor>>
envVars == <<now>>
histVars == <<ameChunk, trCalls, routerCalls, startStatus>>

NoResponse == [translation |-> NULL, confidence |-> NoConfidence,
               model_used |-> NULL]
NoExc == [type |-> NULL, msg |-> NULL]

NewChunkRow == [status |-> PENDING, translated |-> NULL, model_used |-> NULL,
                confidence |-> NoConfidence, flags |-> <<>>]

\* processes that open the same database file
Sessions == {1, 2}
NewSession == [pc |-> "start", next_version |-> 0, outcome |-> NULL]
EmptyDb == [books |-> <<>>, chunks |-> <<>>, bible |-> <<>>,
            quota |-> [m \in 1..NModels |-> 0]]

\* ------------------------------------------------------------------
\* Text. A string is a sequence of runs: a run of n whitespace characters, or a
\* run of n non-whitespace characters (a word, named by id).
\* ------------------------------------------------------------------
W(id, n) == [ws |-> FALSE, n |-> n, id |-> id]
S(n) == [ws |-> TRUE, n |-> n, id |-> " "]
Ellipsis == W("...", 1)

\* Optional[str]
None == [none |-> TRUE, text |-> <<>>]
Some(text) == [none |-> FALSE, text |-> text]

\* (text or "")
OrEmpty(opt) == IF opt.none THEN <<>> ELSE opt.text

\* truth value of an Optional[str]: neither None nor ""
Truthy(opt) == ~opt.none /\ opt.text # <<>>

\* len(text)
RECURSIVE TextLen(_)
TextLen(text) == IF text = <<>> THEN 0 ELSE Head(text).n + TextLen(Tail(text))

\* str.lstrip / str.rstrip / str.strip
RECURSIVE lstrip(_)
lstrip(text) ==
    IF text = <<>> THEN <<>>
    ELSE IF Head(text).ws THEN lstrip(Tail(text)) ELSE text

RECURSIVE rstrip(_)
rstrip(text) ==
    IF text = <<>> THEN <<>>
    ELSE IF text[Len(text)].ws THEN rstrip(SubSeq(text, 1, Len(text) - 1)) ELSE text

strip(text) == rstrip(lstrip(text))

\* text.split()
split(text) == SelectSeq(text, LAMBDA r : ~r.ws)

\* " ".join(words)
RECURSIVE join(_)
join(words) ==
    IF Len(words) <= 1 THEN words
    ELSE <<Head(words), S(1)>> \o join(Tail(words))

\* text[:c]
RECURSIVE Slice(_, _)
Slice(text, c) ==
    IF text = <<>> \/ c <= 0 THEN <<>>
    ELSE IF Head(text).n <= c
         THEN <<Head(text)>> \o Slice(Tail(text), c - Head(text).n)
         ELSE <<[Head(text) EXCEPT !.n = c]>>

\* variant: the cut keeps max_chars characters before the ellipsis
_truncate_text_keep_max(text, max_chars) ==
    LET cleaned == strip(join(split(OrEmpty(text)))) IN
    IF TextLen(cleaned) <= max_chars THEN cleaned
    ELSE rstrip(Slice(cleaned, max_chars)) \o <<Ellipsis>>

_truncate_text(text, max_chars) ==
    LET cleaned == strip(join(split(OrEmpty(text)))) IN
    IF TextLen(cleaned) <= max_chars THEN cleaned
    ELSE rstrip(Slice(cleaned, max_chars - 1)) \o <<Ellipsis>>

_GENERIC_CHARACTER_DESCRIPTION ==
    <<W("personaje", 9), S(1), W("mencionado", 10), S(1), W("en", 2), S(1),
      W("esta", 4), S(1), W("escena", 6)>>

\* ------------------------------------------------------------------
\* BookBible and BibleUpdate. Glossary terms and character names are numbers;
\* a name below 1 stands for a string _is_valid_character_name rejects.
\* A decision carries its text, its normal form (norm, 0 when nothing is left)
\* and the family of texts SequenceMatcher rates as similar (ratio >= 0.84).
\* ------------------------------------------------------------------
EmptyMap == [t \in {} |-> NULL]

BookBible_empty ==
    [voice      |-> <<W("narrador", 8), S(1), W("en", 2), S(1), W("tercera", 7), S(1),
                      W("persona,", 8), S(1), W("tiempo", 6), S(1), W("pasado", 6)>>,
     decisions  |-> <<>>,
     glossary   |-> EmptyMap,
     characters |-> EmptyMap,
     last_scene |-> <<W("Inicio", 6), S(1), W("del", 3), S(1), W("libro", 5), S(1),
                      W("-", 1), S(1), W("no", 2), S(1), W("hay", 3), S(1),
                      W("contexto", 8), S(1), W("previo.", 7)>>]

NoUpdate == [voice |-> None, glossary |-> <<>>, characters |-> <<>>,
             decisions |-> <<>>, last_scene |-> None, rejected |-> <<>>]

_is_valid_character_name(name) == name >= 1

_clean_decision(decision) ==
    LET cleaned == strip(join(split(decision.text))) IN
    IF cleaned = <<>> THEN [decision EXCEPT !.text = <<>>]
    ELSE [decision EXCEPT !.text = _truncate_text(Some(cleaned), _MAX_DECISION_CHARS)]

_normalize_decision(decision) == decision.norm

_is_new_decision(candidate, existing) ==
    /\ _normalize_decision(candidate) # 0
    /\ \A k \in 1..Len(existing) :
          /\ _normalize_decision(candidate) # _normalize_decision(existing[k])
          /\ candidate.family # existing[k].family

\* first `room` elements of a sequence
FirstOf(seq, room) ==
    SubSeq(seq, 1, IF room < 0 THEN 0 ELSE IF room < Len(seq) THEN room ELSE Len(seq))

Range(seq) == {seq[k] : k \in 1..Len(seq)}

\* variant of the glossary loop: a term that is present takes the new translation
apply_glossary_overwrite(glossary, items) ==
    LET added == FirstOf(SelectSeq(items, LAMBDA it : it.term \notin DOMAIN glossary),
                         _MAX_GLOSSARY_ENTRIES - Cardinality(DOMAIN glossary))
    IN  [t \in DOMAIN glossary \cup {it.term : it \in Range(added)} |->
            IF \E it \in Range(items) : it.term = t
            THEN (CHOOSE it \in Range(items) : it.term = t).translation
            ELSE glossary[t]]

\* BookBible.apply, glossary loop: in the order of the update's items, a term is added
\* when it is absent and fewer than _MAX_GLOSSARY_ENTRIES entries are stored
apply_glossary(glossary, items) ==
    LET added == FirstOf(SelectSeq(items, LAMBDA it : it.term \notin DOMAIN glossary),
                         _MAX_GLOSSARY_ENTRIES - Cardinality(DOMAIN glossary))
    IN  [t \in DOMAIN glossary \cup {it.term : it \in Range(added)} |->
            IF t \in DOMAIN glossary THEN glossary[t]
            ELSE (CHOOSE it \in Range(added) : it.term = t).translation]

\* BookBible.apply, rejected loop: self.characters.pop(name, None)
apply_rejected(characters, rejected) ==
    [c \in DOMAIN characters \ Range(rejected) |-> characters[c]]

\* variant of the characters loop: a stored description is replaced by any other
\* non-blank description
apply_characters_overwrite(characters, items) ==
    LET valid == SelectSeq(items, LAMBDA it : _is_valid_character_name(it.name))
        added == FirstOf(SelectSeq(valid, LAMBDA it : it.name \notin DOMAIN characters),
                         _MAX_CHARACTER_ENTRIES - Cardinality(DOMAIN characters))
        Given(c) == (CHOOSE it \in Range(valid) : it.name = c).description
    IN  [c \in DOMAIN characters \cup {it.name : it \in Range(added)} |->
            IF c \notin DOMAIN characters THEN Given(c)
            ELSE IF /\ \E it \in Range(valid) : it.name = c
                    /\ strip(Given(c)) # <<>>
                 THEN Given(c)
                 ELSE characters[c]]

\* BookBible.apply, characters loop: a valid absent name is added while fewer than
\* _MAX_CHARACTER_ENTRIES are stored; a stored generic description is replaced by a
\* non-generic, non-blank one
apply_characters(characters, items) ==
    LET valid == SelectSeq(items, LAMBDA it : _is_valid_character_name(it.name))
        added == FirstOf(SelectSeq(valid, LAMBDA it : it.name \notin DOMAIN characters),
                         _MAX_CHARACTER_ENTRIES - Cardinality(DOMAIN characters))
        Given(c) == (CHOOSE it \in Range(valid) : it.name = c).description
    IN  [c \in DOMAIN characters \cup {it.name : it \in Range(added)} |->
            IF c \notin DOMAIN characters THEN Given(c)
            ELSE IF /\ \E it \in Range(valid) : it.name = c
                    /\ characters[c] = _GENERIC_CHARACTER_DESCRIPTION
                    /\ Given(c) # _GENERIC_CHARACTER_DESCRIPTION
                    /\ strip(Given(c)) # <<>>
                 THEN Given(c)
                 ELSE characters[c]]

\* BookBible.apply, decisions loop and the cut to the last _MAX_DECISIONS_ENTRIES
RECURSIVE append_decisions(_, _)
append_decisions(decisions, items) ==
    IF items = <<>> THEN decisions
    ELSE LET cleaned == _clean_decision(Head(items)) IN
         IF cleaned.text # <<>> /\ _is_new_decision(cleaned, decisions)
         THEN append_decisions(Append(decisions, cleaned), Tail(items))
         ELSE append_decisions(decisions, Tail(items))

apply_decisions(decisions, items) ==
    LET all == append_decisions(decisions, items) IN
    IF Len(all) > _MAX_DECISIONS_ENTRIES
    THEN SubSeq(all, Len(all) - _MAX_DECISIONS_ENTRIES + 1, Len(all))
    ELSE all

\* BookBible.apply
apply(b, update) ==
    [voice      |-> IF Truthy(update.voice) /\ strip(update.voice.text) # <<>>
                    THEN strip(update.voice.text) ELSE b.voice,
     glossary   |-> apply_glossary(b.glossary, update.glossary),
     characters |-> apply_characters(apply_rejected(b.characters, update.rejected),
                                     update.characters),
     decisions  |-> apply_decisions(b.decisions, update.decisions),
     last_scene |-> IF Truthy(update.last_scene)
                    THEN _truncate_text(update.last_scene, _MAX_LAST_SCENE_CHARS)
                    ELSE b.last_scene]

\* no BookBible object has been built
BibleIdle ==
    /\ bible = NULL
    /\ applies = 0
    /\ last_update = 0
    /\ last_extracted = 0

\* ChunkConfig()
ChunkConfig_default == [min_tokens |-> 800, max_tokens |-> 2000]

\* the chunker has not been given a text
ChunkerIdle ==
    chunker = [lines |-> <<>>, config |-> ChunkConfig_default, all_chunks |-> <<>>,
               done |-> FALSE]

\* no reply has been received
ParserIdle ==
    parser = [raw_text |-> <<>>, response |-> NoResponse, rows |-> <<NewChunkRow>>,
              done |-> FALSE, update |-> NoUpdate, extracted |-> FALSE]

\* BibleExtractor.__init__, no extract call made yet
ExtractorIdle ==
    extractor = [counter |-> 0, next_index |-> 0, since_invocation |-> 0,
                 plain_since_return |-> 0, calls |-> 0,
                 last |-> [chunk_index |-> 0, keyword |-> FALSE, force |-> FALSE,
                           passed |-> 0, plain_passed |-> 0, queried |-> FALSE,
                           returned |-> FALSE]]

\* no manuscript has been built
ReconstructorIdle ==
    reconstructor = [rows |-> <<>>, parts |-> <<>>, output |-> <<>>, built |-> FALSE,
                     raised |-> FALSE]

StoreIdle ==
    /\ sharedDb = EmptyDb
    /\ sessions = [p \in Sessions |-> NewSession]
    /\ tokensAdded = [m \in 1..NModels |-> 0]
    /\ resaved = FALSE

ResumeIdle ==
    /\ book_notes = <<>>
    /\ processed = 0
    /\ extract_counter = 0
    /\ bible_saved = <<>>
    /\ translated_with = <<>>
    /\ interruptions = 0

InitPipeline ==
    /\ mode \in BookMode
    /\ nChunks \in 0..MaxChunks
    /\ useExtractor \in BOOLEAN
    /\ bookStatus = NO_BOOK
    /\ chunks = <<>>
    /\ bibleRows = <<>>
    /\ quota = [m \in 1..NModels |-> 0]
    /\ now = 0
    /\ unavailable_until = [m \in 1..NModels |-> NoCooldown]
    /\ since_last_extract = 0
    /\ pc = "idle"
    /\ was_resumed = FALSE
    /\ pending = <<>>
    /\ i = 0
    /\ flagged_ids = <<>>
    /\ response = NoResponse
    /\ exc = NoExc
    /\ routerFor = NULL
    /\ routerJ = 0
    /\ calls = <<>>
    /\ routerResult = NULL
    /\ outcome = NULL
    /\ ameChunk = 0
    /\ trCalls = [k \in 1..MaxChunks |-> 0]
    /\ routerCalls = 0
    /\ startStatus = <<>>

Init ==
    /\ InitPipeline
    /\ StoreIdle
    /\ ResumeIdle
    /\ BibleIdle
    /\ ChunkerIdle
    /\ ParserIdle
    /\ ExtractorIdle
    /\ ReconstructorIdle

\* ------------------------------------------------------------------
\* Helpers
\* ------------------------------------------------------------------
Indices(cs) == [k \in 1..Len(cs) |-> k]

RECURSIVE MaxOf(_)
MaxOf(seq) == IF seq = <<>> THEN 0
              ELSE LET m == MaxOf(Tail(seq)) IN IF Head(seq) > m THEN Head(seq) ELSE m

CountStatus(cs, st) == Cardinality({k \in 1..Len(cs) : cs[k].status = st})

\* ------------------------------------------------------------------
\* Repository
\* ------------------------------------------------------------------
\* INSERT OR IGNORE of n PENDING rows: an existing (book_id, chunk_index) row is kept.
\* variant: INSERT OR REPLACE, every chunk of the call is written anew
save_chunks_replace(cs, n) ==
    [k \in 1..(IF n > Len(cs) THEN n ELSE Len(cs)) |->
        IF k <= n THEN NewChunkRow ELSE cs[k]]

save_chunks(cs, n) ==
    [k \in 1..(IF n > Len(cs) THEN n ELSE Len(cs)) |->
        IF k <= Len(cs) THEN cs[k] ELSE NewChunkRow]

\* variant: the status filter is missing, every row of the book comes back
get_pending_chunks_all(cs) == Indices(cs)

\* variant: the pending rows come back in descending chunk_index order
get_pending_chunks_desc(cs) ==
    LET asc == SelectSeq(Indices(cs), LAMBDA k : cs[k].status = PENDING)
    IN [n \in 1..Len(asc) |-> asc[Len(asc) + 1 - n]]

\* SELECT ... WHERE status = 'pending' ORDER BY chunk_index ASC
get_pending_chunks(cs) == SelectSeq(Indices(cs), LAMBDA k : cs[k].status = PENDING)

\* One UPDATE statement writes the four columns of the row.
update_chunk_translation(cs, k, translated, model_used, confidence, status) ==
    [cs EXCEPT ![k] = [@ EXCEPT !.translated = translated,
                                !.model_used = model_used,
                                !.confidence = confidence,
                                !.status = status]]

\* variant: flagging puts the row back into the pending queue
flag_chunk_requeue(cs, k, flags) ==
    [cs EXCEPT ![k] = [@ EXCEPT !.flags = flags, !.status = PENDING]]

\* variant: flagging stores the flags and leaves the status as it was
flag_chunk_flags_only(cs, k, flags) ==
    [cs EXCEPT ![k] = [@ EXCEPT !.flags = flags]]

flag_chunk(cs, k, flags) ==
    [cs EXCEPT ![k] = [@ EXCEPT !.flags = flags, !.status = FLAGGED]]

\* version = MAX(version) + 1, always a new row
save_bible(rows) == Append(rows, MaxOf(rows) + 1)

\* variant: the upsert replaces the stored count instead of adding to it
add_token_usage_replace(q, m, tokens) == [q EXCEPT ![m] = tokens]

add_token_usage(q, m, tokens) == [q EXCEPT ![m] = @ + tokens]

\* ------------------------------------------------------------------
\* Orchestrator helpers
\* ------------------------------------------------------------------
\* variant: the threshold itself is not enough
_resolve_status_strict(confidence) == IF confidence > ConfidenceThreshold THEN DONE ELSE FLAGGED

_resolve_status(confidence) == IF confidence >= ConfidenceThreshold THEN DONE ELSE FLAGGED

\* f"error: {type(e).__name__}: {e}"
ErrorFlag(e) == <<"error", e.type, e.msg>>

\* "raise": BookAlreadyDoneError; "repair": DONE with pending rows, forced to IN_PROGRESS
_assert_book_can_run(status, cs) ==
    IF status # BOOK_DONE THEN "ok"
    ELSE IF get_pending_chunks(cs) # <<>> THEN "repair"
    ELSE "raise"

\* status written at the end of run / run_fix / run_fix_style
FinalBookStatus(cs) ==
    LET total      == Len(cs)
        translated == CountStatus(cs, DONE)
        flagged    == CountStatus(cs, FLAGGED)
        pending_after == total - translated - flagged
    IN IF pending_after > 0 THEN IN_PROGRESS ELSE BOOK_DONE

\* state of the in-process objects of a freshly started process
FreshCooldowns == [m \in 1..NModels |-> NoCooldown]

\* the locals of an invocation that has ended
LocalsGone ==
    /\ was_resumed' = FALSE
    /\ pending' = <<>>
    /\ i' = 0
    /\ flagged_ids' = <<>>
    /\ response' = NoResponse
    /\ exc' = NoExc
    /\ routerFor' = NULL
    /\ routerJ' = 0
    /\ calls' = <<>>

ResetHistory ==
    /\ ameChunk' = 0
    /\ trCalls' = [k \in 1..MaxChunks |-> 0]
    /\ routerCalls' = 0
    /\ startStatus' = <<>>
    /\ routerResult' = NULL

\* ------------------------------------------------------------------
\* Orchestrator.run / run_fix / run_fix_style: identify the book
\* ------------------------------------------------------------------
Identify ==
    /\ pc = "idle"
    /\ ResetHistory
    /\ pending' = <<>> /\ i' = 0 /\ flagged_ids' = <<>> /\ response' = NoResponse
    /\ exc' = NoExc /\ routerFor' = NULL /\ routerJ' = 0 /\ calls' = <<>>
    /\ IF bookStatus # NO_BOOK
       THEN LET verdict == _assert_book_can_run(bookStatus, chunks) IN
            IF verdict = "raise"
            THEN /\ pc' = "idle"
                 /\ outcome' = "BookAlreadyDone"
                 /\ was_resumed' = FALSE
                 /\ UNCHANGED bookStatus
            ELSE /\ bookStatus' = IF verdict = "repair" THEN IN_PROGRESS ELSE bookStatus
                 /\ was_resumed' = TRUE
                 /\ pc' = "get_pending"
                 /\ outcome' = NULL
       ELSE \* create_book inserts the row with status in_progress
            /\ bookStatus' = IN_PROGRESS
            /\ was_resumed' = FALSE
            /\ pc' = "parse"
            /\ outcome' = NULL
    /\ UNCHANGED <<chunks, bibleRows, quota, unavailable_until, since_last_extract>>
    /\ UNCHANGED <<scenarioVars, cfgVars, envVars>>

Run == mode = "translate" /\ Identify
RunFix == mode = "fix" /\ Identify
RunFixStyle == mode = "fix_style" /\ Identify

\* _parse_and_store / _parse_and_store_fix
ParseAndStore ==
    /\ pc = "parse"
    /\ chunks' = save_chunks(chunks, nChunks)
    /\ pc' = "get_pending"
    /\ UNCHANGED <<bookStatus, bibleRows, quota, unavailable_until, since_last_extract,
                   was_resumed, pending, i, flagged_ids, response, exc, routerFor,
                   routerJ, calls, routerResult, outcome>>
    /\ UNCHANGED <<scenarioVars, cfgVars, envVars, histVars>>

GetPending ==
    /\ pc = "get_pending"
    /\ pending' = get_pending_chunks(chunks)
    /\ startStatus' = [k \in 1..Len(chunks) |-> chunks[k].status]
    /\ pc' = IF get_pending_chunks(chunks) = <<>> THEN "nothing_pending" ELSE "load_bible"
    /\ UNCHANGED <<dbVars, unavailable_until, since_last_extract, was_resumed, i,
                   flagged_ids, response, exc, routerFor, routerJ, calls, routerResult,
                   outcome, ameChunk, trCalls, routerCalls>>
    /\ UNCHANGED <<scenarioVars, cfgVars, envVars>>

\* "No hay chunks pendientes": reconstruct and return; Reconstructor.build raises
\* ValueError when the book has no chunk row. The book status is not written.
ReturnNothingPending ==
    /\ pc = "nothing_pending"
    /\ pc' = "idle"
    /\ outcome' = IF Len(chunks) = 0 THEN "ValueError" ELSE "returned"
    /\ LocalsGone
    /\ UNCHANGED <<dbVars, unavailable_until, since_last_extract, routerResult>>
    /\ UNCHANGED <<scenarioVars, cfgVars, envVars, histVars>>

\* variant: the bible is only loaded, a missing one is not stored
LoadOrInitBible_OnlyLoads ==
    /\ pc = "load_bible"
    /\ i' = 1
    /\ pc' = "loop"
    /\ UNCHANGED <<bookStatus, chunks, bibleRows, quota, unavailable_until,
                   since_last_extract, was_resumed, pending, flagged_ids, response, exc,
                   routerFor, routerJ, calls, routerResult, outcome>>
    /\ UNCHANGED <<scenarioVars, cfgVars, envVars, histVars>>

\* _load_or_init_bible at the head of _process_chunks*
LoadOrInitBible ==
    /\ pc = "load_bible"
    /\ bibleRows' = IF bibleRows = <<>> THEN save_bible(bibleRows) ELSE bibleRows
    /\ i' = 1
    /\ pc' = "loop"
    /\ UNCHANGED <<bookStatus, chunks, quota, unavailable_until, since_last_extract,
                   was_resumed, pending, flagged_ids, response, exc, routerFor, routerJ,
                   calls, routerResult, outcome>>
    /\ UNCHANGED <<scenarioVars, cfgVars, envVars, histVars>>

\* ------------------------------------------------------------------
\* _process_chunks / _process_chunks_fix / _process_chunks_polish: the loop
\* ------------------------------------------------------------------
CurrentChunk == pending[i]

\* compress the bible, build the prompt, call self._router.translate
BeginChunk ==
    /\ pc = "loop"
    /\ i <= Len(pending)
    /\ pc' = "router"
    /\ routerFor' = "translate"
    /\ routerJ' = 1
    /\ calls' = <<>>
    /\ routerResult' = NULL
    /\ response' = NoResponse
    /\ exc' = NoExc
    /\ trCalls' = [trCalls EXCEPT ![CurrentChunk] = @ + 1]
    /\ routerCalls' = routerCalls + 1
    /\ UNCHANGED <<dbVars, unavailable_until, since_last_extract, was_resumed, pending, i,
                   flagged_ids, outcome, ameChunk, startStatus>>
    /\ UNCHANGED <<scenarioVars, cfgVars, envVars>>

\* the for loop has no chunk left
LoopExit ==
    /\ pc = "loop"
    /\ i > Len(pending)
    /\ pc' = "reconstruct"
    /\ UNCHANGED <<dbVars, unavailable_until, since_last_extract, was_resumed, pending, i,
                   flagged_ids, response, exc, routerFor, routerJ, calls, routerResult,
                   outcome>>
    /\ UNCHANGED <<scenarioVars, cfgVars, envVars, histVars>>

\* ------------------------------------------------------------------
\* Adapters (ClaudeAdapter, GeminiAdapter)
\* ------------------------------------------------------------------
\* variant: the cooldown still holds at the instant it ends
InCooldown_Inclusive(m) ==
    unavailable_until[m] # NoCooldown /\ now <= unavailable_until[m]

InCooldown(m) == unavailable_until[m] # NoCooldown /\ now < unavailable_until[m]

\* variant: an adapter that has used exactly its limit still reports available
is_available_UpToLimit(m) ==
    IF InCooldown(m) THEN FALSE ELSE quota[m] <= DailyTokenLimit[m]

is_available(m) == IF InCooldown(m) THEN FALSE ELSE quota[m] < DailyTokenLimit[m]

\* is_available forgets a cooldown that has expired
AfterAvailabilityCheck(m) ==
    IF unavailable_until[m] # NoCooldown /\ ~(now < unavailable_until[m])
    THEN [unavailable_until EXCEPT ![m] = NoCooldown]
    ELSE unavailable_until

\* variant: the retryable handler re-raises without noting the cooldown
CooldownAfterRetryable_Unset(m) == AfterAvailabilityCheck(m)

\* except _RETRYABLE_ERRORS: self._config._unavailable_until = time.time() + 300
CooldownAfterRetryable(m) ==
    [AfterAvailabilityCheck(m) EXCEPT ![m] = now + CooldownSeconds]

\* an exception outside _RETRYABLE_ERRORS leaves the adapter's state alone
CooldownAfterOtherError(m) == AfterAvailabilityCheck(m)

\* history entry: what is_available answered and how translate ended ("none": not called)
Call(m, available, result, err) ==
    [model |-> m, available |-> available, result |-> result, err |-> err]

\* what Router.translate leaves when it ends: its locals end with the call inside a
\* run; after a direct call the record of the walk stays with the caller
Kept(v, gone) == IF routerFor = "caller" THEN v ELSE gone

\* ------------------------------------------------------------------
\* Router.translate, one adapter of self._models per step.
\* routerFor: "translate" (the loop), "extract" (BibleExtractor), "caller" (a direct call)
\* ------------------------------------------------------------------
RouterUnchanged ==
    /\ UNCHANGED <<bookStatus, chunks, bibleRows, was_resumed, pending, flagged_ids,
                   outcome, trCalls, routerCalls, startStatus>>
    /\ UNCHANGED <<scenarioVars, cfgVars, envVars>>

\* a direct call of Router.translate
RouterCall ==
    /\ pc = "idle"
    /\ pc' = "router"
    /\ routerFor' = "caller"
    /\ routerJ' = 1
    /\ calls' = <<>>
    /\ routerResult' = NULL
    /\ response' = NoResponse
    /\ exc' = NoExc
    /\ UNCHANGED <<dbVars, unavailable_until, since_last_extract, was_resumed, pending, i,
                   flagged_ids, outcome>>
    /\ UNCHANGED <<scenarioVars, cfgVars, envVars, histVars>>

\* variant: an adapter that reports unavailable is called all the same
RouterSkipUnavailable_Called ==
    /\ pc = "router"
    /\ routerJ <= NModels
    /\ ~is_available(routerJ)
    /\ unavailable_until' = AfterAvailabilityCheck(routerJ)
    /\ calls' = Append(calls, Call(routerJ, is_available(routerJ), "other",
                                   "InternalServerError"))
    /\ routerJ' = routerJ + 1
    /\ UNCHANGED <<quota, since_last_extract, pc, i, response, exc, routerFor,
                   routerResult, ameChunk>>
    /\ RouterUnchanged

\* if not model.is_available(): continue
RouterSkipUnavailable ==
    /\ pc = "router"
    /\ routerJ <= NModels
    /\ ~is_available(routerJ)
    /\ unavailable_until' = AfterAvailabilityCheck(routerJ)
    /\ calls' = Append(calls, Call(routerJ, is_available(routerJ), "none", NULL))
    /\ routerJ' = routerJ + 1
    /\ UNCHANGED <<quota, since_last_extract, pc, i, response, exc, routerFor,
                   routerResult, ameChunk>>
    /\ RouterUnchanged

\* model.translate returns: the adapter records the tokens and the router returns
RouterAdapterSucceeds ==
    /\ pc = "router"
    /\ routerJ <= NModels
    /\ is_available(routerJ)
    /\ \E tokens \in TokenChoices, confidence \in ConfidenceChoices :
          /\ quota' = add_token_usage(quota, routerJ, tokens)
          /\ IF routerFor = "extract"
             THEN \* BibleExtractor.extract: counter reset, update parsed
                  /\ since_last_extract' = 0
                  /\ pc' = "apply_bible"
                  /\ UNCHANGED response
             ELSE /\ response' = [translation |-> "T", confidence |-> confidence,
                                  model_used |-> Models[routerJ]]
                  /\ pc' = IF routerFor = "translate" THEN "persist" ELSE "idle"
                  /\ UNCHANGED since_last_extract
    /\ unavailable_until' = AfterAvailabilityCheck(routerJ)
    /\ calls' = Kept(Append(calls, Call(routerJ, is_available(routerJ), "ok", NULL)), <<>>)
    /\ routerResult' = Kept("returned", NULL)
    /\ routerFor' = Kept(routerFor, NULL)
    /\ routerJ' = Kept(routerJ, 0)
    /\ UNCHANGED <<i, exc, ameChunk>>
    /\ RouterUnchanged

\* model.translate raises one of the adapter's _RETRYABLE_ERRORS
RouterAdapterRetryable ==
    /\ pc = "router"
    /\ routerJ <= NModels
    /\ is_available(routerJ)
    /\ unavailable_until' = CooldownAfterRetryable(routerJ)
    /\ calls' = Append(calls, Call(routerJ, is_available(routerJ), "retryable",
                                   "RateLimitError"))
    /\ routerJ' = routerJ + 1
    /\ UNCHANGED <<quota, since_last_extract, pc, i, response, exc, routerFor,
                   routerResult, ameChunk>>
    /\ RouterUnchanged

\* model.translate raises an exception that is neither retryable nor a content error
RouterAdapterOtherError ==
    /\ pc = "router"
    /\ routerJ <= NModels
    /\ is_available(routerJ)
    /\ unavailable_until' = CooldownAfterOtherError(routerJ)
    /\ calls' = Append(calls, Call(routerJ, is_available(routerJ), "other",
                                   "InternalServerError"))
    /\ routerJ' = routerJ + 1
    /\ UNCHANGED <<quota, since_last_extract, pc, i, response, exc, routerFor,
                   routerResult, ameChunk>>
    /\ RouterUnchanged

\* variant: a content error is handled like the other failures, the router fails over
RouterAdapterContentError_FailsOver ==
    /\ pc = "router"
    /\ routerJ <= NModels
    /\ is_available(routerJ)
    /\ unavailable_until' = AfterAvailabilityCheck(routerJ)
    /\ \E t \in ContentErrorTypes :
          calls' = Append(calls, Call(routerJ, is_available(routerJ), "content", t))
    /\ routerJ' = routerJ + 1
    /\ UNCHANGED <<quota, since_last_extract, pc, i, response, exc, routerFor,
                   routerResult, ameChunk>>
    /\ RouterUnchanged

\* model.translate raises a content error: _is_content_error(e), the router re-raises.
\* The orchestrator's except Exception takes it; BibleExtractor.extract swallows it.
RouterAdapterContentError ==
    /\ pc = "router"
    /\ routerJ <= NModels
    /\ is_available(routerJ)
    /\ unavailable_until' = AfterAvailabilityCheck(routerJ)
    /\ routerResult' = Kept("content_error", NULL)
    /\ routerFor' = Kept(routerFor, NULL)
    /\ routerJ' = Kept(routerJ, 0)
    /\ \E t \in ContentErrorTypes :
          /\ calls' = Kept(Append(calls, Call(routerJ, is_available(routerJ),
                                              "content", t)), <<>>)
          /\ IF routerFor = "extract"
             THEN /\ exc' = NoExc
                  /\ pc' = "apply_bible"
             ELSE /\ exc' = [type |-> t, msg |-> "rejected"]
                  /\ pc' = IF routerFor = "translate" THEN "flag" ELSE "idle"
    /\ UNCHANGED <<quota, since_last_extract, i, response, ameChunk>>
    /\ RouterUnchanged

\* variant: the router gives up as soon as one adapter has been passed
RouterExhausted_Early ==
    /\ pc = "router"
    /\ routerJ > 1
    /\ routerResult' = Kept("AllModelsExhausted", NULL)
    /\ routerFor' = Kept(routerFor, NULL)
    /\ routerJ' = Kept(routerJ, 0)
    /\ calls' = Kept(calls, <<>>)
    /\ IF routerFor = "translate"
       THEN /\ pc' = "reconstruct"
            /\ ameChunk' = CurrentChunk
       ELSE IF routerFor = "extract"
       THEN /\ pc' = "apply_bible"
            /\ UNCHANGED ameChunk
       ELSE /\ pc' = "idle"
            /\ UNCHANGED ameChunk
    /\ UNCHANGED <<quota, unavailable_until, since_last_extract, i, response, exc>>
    /\ RouterUnchanged

\* variant: AllModelsExhaustedError is not told apart from the other exceptions of the chunk
RouterExhausted_Flagged ==
    /\ pc = "router"
    /\ routerJ > NModels
    /\ routerResult' = Kept("AllModelsExhausted", NULL)
    /\ routerFor' = Kept(routerFor, NULL)
    /\ routerJ' = Kept(routerJ, 0)
    /\ calls' = Kept(calls, <<>>)
    /\ IF routerFor = "translate"
       THEN /\ pc' = "flag"
            /\ exc' = [type |-> "AllModelsExhaustedError", msg |-> "exhausted"]
            /\ ameChunk' = CurrentChunk
       ELSE IF routerFor = "extract"
       THEN /\ pc' = "apply_bible"
            /\ UNCHANGED <<ameChunk, exc>>
       ELSE /\ pc' = "idle"
            /\ UNCHANGED <<ameChunk, exc>>
    /\ UNCHANGED <<quota, unavailable_until, since_last_extract, i, response>>
    /\ RouterUnchanged

\* the list is exhausted: raise AllModelsExhaustedError.
\* In the loop: break. In BibleExtractor.extract: caught by "except Exception", None returned.
RouterExhausted ==
    /\ pc = "router"
    /\ routerJ > NModels
    /\ routerResult' = Kept("AllModelsExhausted", NULL)
    /\ routerFor' = Kept(routerFor, NULL)
    /\ routerJ' = Kept(routerJ, 0)
    /\ calls' = Kept(calls, <<>>)
    /\ IF routerFor = "translate"
       THEN /\ pc' = "reconstruct"
            /\ ameChunk' = CurrentChunk
       ELSE IF routerFor = "extract"
       THEN /\ pc' = "apply_bible"
            /\ UNCHANGED ameChunk
       ELSE /\ pc' = "idle"
            /\ UNCHANGED ameChunk
    /\ UNCHANGED <<quota, unavailable_until, since_last_extract, i, response, exc>>
    /\ RouterUnchanged

\* ------------------------------------------------------------------
\* The loop body after the router answered
\* ------------------------------------------------------------------
LoopUnchanged ==
    /\ UNCHANGED <<was_resumed, pending, routerFor, routerJ, calls, routerResult,
                   outcome, ameChunk, trCalls, startStatus>>
    /\ UNCHANGED <<scenarioVars, cfgVars, envVars>>

\* self._repo.update_chunk_translation(..., status=self._resolve_status(confidence))
PersistTranslation ==
    /\ pc = "persist"
    /\ chunks' = update_chunk_translation(chunks, CurrentChunk, response.translation,
                                          response.model_used, response.confidence,
                                          _resolve_status(response.confidence))
    /\ pc' = "extract"
    /\ UNCHANGED <<bookStatus, bibleRows, quota, unavailable_until, since_last_extract,
                   i, flagged_ids, response, exc, routerCalls>>
    /\ LoopUnchanged

\* (mutant) the counter has to exceed N
should_extract_after_n(chunk, keyword, force, counter) ==
    IF chunk = 1 THEN [extract |-> TRUE, counter |-> counter]
    ELSE IF force THEN [extract |-> TRUE, counter |-> counter]
    ELSE IF keyword THEN [extract |-> TRUE, counter |-> counter]
    ELSE [extract |-> counter + 1 > _EXTRACT_EVERY_N, counter |-> counter + 1]

\* BibleExtractor.should_extract: the verdict and the counter it leaves
should_extract(chunk, keyword, force, counter) ==
    IF chunk = 1 THEN [extract |-> TRUE, counter |-> counter]
    ELSE IF force THEN [extract |-> TRUE, counter |-> counter]
    ELSE IF keyword THEN [extract |-> TRUE, counter |-> counter]
    ELSE [extract |-> counter + 1 >= _EXTRACT_EVERY_N, counter |-> counter + 1]

\* self._extractor.extract(...): decides whether to query the model
ExtractDecide ==
    /\ pc = "extract"
    /\ \E keyword \in BOOLEAN, force \in BOOLEAN :
          IF useExtractor
          THEN LET d == should_extract(CurrentChunk, keyword, force,
                                       since_last_extract) IN
               /\ since_last_extract' = d.counter
               /\ IF d.extract
                  THEN /\ pc' = "router"
                       /\ routerFor' = "extract"
                       /\ routerJ' = 1
                       /\ calls' = <<>>
                       /\ routerResult' = NULL
                       /\ routerCalls' = routerCalls + 1
                  ELSE /\ pc' = "apply_bible"
                       /\ UNCHANGED <<routerFor, routerJ, calls, routerResult, routerCalls>>
          ELSE \* _NoopBibleExtractor.extract returns None
               /\ pc' = "apply_bible"
               /\ UNCHANGED <<since_last_extract, routerFor, routerJ, calls, routerResult,
                              routerCalls>>
    /\ UNCHANGED <<dbVars, unavailable_until, was_resumed, pending, i, flagged_ids,
                   response, exc, outcome, ameChunk, trCalls,
                   startStatus>>
    /\ UNCHANGED <<scenarioVars, cfgVars, envVars>>

\* a statement of the try block after the translation was stored raises
BibleStepRaises ==
    /\ pc \in {"extract", "apply_bible"}
    /\ \E t \in StepErrorTypes : exc' = [type |-> t, msg |-> "failed"]
    /\ pc' = "flag"
    /\ UNCHANGED <<dbVars, unavailable_until, since_last_extract, i, flagged_ids,
                   response, routerCalls>>
    /\ LoopUnchanged

\* variant: the loop moves to the next chunk without saving the bible
ApplyAndSaveBible_NoSave ==
    /\ pc = "apply_bible"
    /\ i' = i + 1
    /\ pc' = "loop"
    /\ UNCHANGED <<bookStatus, chunks, bibleRows, quota, unavailable_until,
                   since_last_extract, flagged_ids, response, exc, routerCalls>>
    /\ LoopUnchanged

\* merge the updates, bible.apply, self._repo.save_bible; next chunk
ApplyAndSaveBible ==
    /\ pc = "apply_bible"
    /\ bibleRows' = save_bible(bibleRows)
    /\ i' = i + 1
    /\ pc' = "loop"
    /\ UNCHANGED <<bookStatus, chunks, quota, unavailable_until, since_last_extract,
                   flagged_ids, response, exc, routerCalls>>
    /\ LoopUnchanged

\* variant: the handler flags the chunk and leaves the loop
FlagChunk_Breaks ==
    /\ pc = "flag"
    /\ chunks' = flag_chunk(chunks, CurrentChunk, <<ErrorFlag(exc)>>)
    /\ flagged_ids' = Append(flagged_ids, CurrentChunk)
    /\ pc' = "reconstruct"
    /\ UNCHANGED <<bookStatus, bibleRows, quota, unavailable_until, since_last_extract,
                   i, response, exc, routerCalls>>
    /\ LoopUnchanged

\* except Exception: flag_chunk, flagged_ids.append; the loop goes on
FlagChunk ==
    /\ pc = "flag"
    /\ chunks' = flag_chunk(chunks, CurrentChunk, <<ErrorFlag(exc)>>)
    /\ flagged_ids' = Append(flagged_ids, CurrentChunk)
    /\ i' = i + 1
    /\ pc' = "loop"
    /\ UNCHANGED <<bookStatus, bibleRows, quota, unavailable_until, since_last_extract,
                   response, exc, routerCalls>>
    /\ LoopUnchanged

\* reconstruct, _build_result, update_book_status, return
Finish ==
    /\ pc = "reconstruct"
    /\ bookStatus' = FinalBookStatus(chunks)
    /\ pc' = "idle"
    /\ outcome' = "returned"
    /\ LocalsGone
    /\ UNCHANGED <<chunks, bibleRows, quota, unavailable_until, since_last_extract,
                   routerResult>>
    /\ UNCHANGED <<scenarioVars, cfgVars, envVars, histVars>>

\* ------------------------------------------------------------------
\* Environment
\* ------------------------------------------------------------------
\* the process is killed while an entry point runs; the next one is a new process
Interrupt ==
    /\ pc # "idle"
    /\ pc' = "idle"
    /\ outcome' = "interrupted"
    /\ unavailable_until' = FreshCooldowns
    /\ since_last_extract' = 0
    /\ LocalsGone
    /\ ResetHistory
    /\ UNCHANGED dbVars
    /\ UNCHANGED <<scenarioVars, cfgVars, envVars>>

\* variant: the first adapter's cooldown outlives the process
Restart_KeepsCooldown ==
    /\ pc = "idle"
    /\ unavailable_until # FreshCooldowns \/ since_last_extract # 0
    /\ unavailable_until' = [FreshCooldowns EXCEPT ![1] = unavailable_until[1]]
    /\ since_last_extract' = 0
    /\ UNCHANGED <<dbVars, pc, was_resumed, pending, i, flagged_ids, response, exc,
                   routerFor, routerJ, calls, routerResult, outcome>>
    /\ UNCHANGED <<scenarioVars, cfgVars, envVars, histVars>>

\* the process ends between two invocations: in-process state is lost
Restart ==
    /\ pc = "idle"
    /\ unavailable_until # FreshCooldowns \/ since_last_extract # 0
    /\ unavailable_until' = FreshCooldowns
    /\ since_last_extract' = 0
    /\ UNCHANGED <<dbVars, pc, was_resumed, pending, i, flagged_ids, response, exc,
                   routerFor, routerJ, calls, routerResult, outcome>>
    /\ UNCHANGED <<scenarioVars, cfgVars, envVars, histVars>>

Tick ==
    /\ \E d \in TickDeltas :
          /\ now + d <= MaxTime
          /\ now' = now + d
    /\ UNCHANGED <<dbVars, unavailable_until, since_last_extract, pc, was_resumed,
                   pending, i, flagged_ids, response, exc, routerFor, routerJ, calls,
                   routerResult, outcome>>
    /\ UNCHANGED <<scenarioVars, cfgVars, histVars>>

\* date.today() changes: the quota row of the new day does not exist yet
NewDay ==
    /\ quota # [m \in 1..NModels |-> 0]
    /\ quota' = [m \in 1..NModels |-> 0]
    /\ UNCHANGED <<bookStatus, chunks, bibleRows, now, unavailable_until,
                   since_last_extract, pc, was_resumed, pending, i, flagged_ids,
                   response, exc, routerFor, routerJ, calls, routerResult, outcome>>
    /\ UNCHANGED <<scenarioVars, cfgVars, histVars>>

Next ==
    \/ Run
    \/ RunFix
    \/ RunFixStyle
    \/ ParseAndStore
    \/ GetPending
    \/ ReturnNothingPending
    \/ LoadOrInitBible
    \/ BeginChunk
    \/ LoopExit
    \/ RouterSkipUnavailable
    \/ RouterAdapterSucceeds
    \/ RouterAdapterRetryable
    \/ RouterAdapterOtherError
    \/ RouterAdapterContentError
    \/ RouterExhausted
    \/ PersistTranslation
    \/ ExtractDecide
    \/ BibleStepRaises
    \/ ApplyAndSaveBible
    \/ FlagChunk
    \/ Finish
    \/ Interrupt
    \/ Restart
    \/ Tick
    \/ NewDay

Spec == Init /\ [][Next]_vars

\* ------------------------------------------------------------------
\* The router and its adapters on their own: direct calls of Router.translate
\* ------------------------------------------------------------------
InitRouter ==
    /\ Init
    /\ mode = "translate"
    /\ nChunks = 0
    /\ useExtractor = FALSE

NextRouter ==
    \/ RouterCall
    \/ RouterSkipUnavailable
    \/ RouterAdapterSucceeds
    \/ RouterAdapterRetryable
    \/ RouterAdapterOtherError
    \/ RouterAdapterContentError
    \/ RouterExhausted
    \/ Restart
    \/ Tick
    \/ NewDay

SpecRouter == InitRouter /\ [][NextRouter]_vars

\* ------------------------------------------------------------------
\* Repository calls of several processes on one database file.
\* One step is one SQL statement: SQLite runs the statements one after another.
\* ------------------------------------------------------------------
TheHash == "h"
BookRowExists == \E b \in 1..Len(sharedDb.books) : sharedDb.books[b].file_hash = TheHash

\* sessions that have read MAX(version) and not yet inserted
SavingSessions == {p \in Sessions : sessions[p].pc = "save_bible"}

\* some stored chunk row has already been translated or flagged
ProcessedRowExists ==
    \E k \in 1..Len(sharedDb.chunks) : sharedDb.chunks[k].status # PENDING

\* Repository.add_token_usage: a single INSERT ... ON CONFLICT DO UPDATE
AddTokenUsage(p) ==
    /\ sessions[p].pc = "idle"
    /\ \E m \in 1..NModels, tokens \in IncrementChoices :
          /\ tokensAdded[m] + tokens <= MaxUsage
          /\ sharedDb' = [sharedDb EXCEPT !.quota = add_token_usage(@, m, tokens)]
          /\ tokensAdded' = [tokensAdded EXCEPT ![m] = @ + tokens]
    /\ UNCHANGED <<sessions, resaved>>
    /\ UNCHANGED <<pipelineVars, resumeVars, bibleVars, chunkerVars, parserVars,
                   extractorVars, reconstructorVars>>

\* Repository.save_bible, first statement: SELECT MAX(version); next_version = max + 1
SaveBibleSelectMax(p) ==
    /\ sessions[p].pc = "idle"
    /\ BookRowExists
    /\ Len(sharedDb.bible) + Cardinality(SavingSessions) < MaxVersions
    /\ sessions' = [sessions EXCEPT ![p].pc = "save_bible",
                                    ![p].next_version = MaxOf(sharedDb.bible) + 1]
    /\ UNCHANGED <<sharedDb, tokensAdded, resaved>>
    /\ UNCHANGED <<pipelineVars, resumeVars, bibleVars, chunkerVars, parserVars,
                   extractorVars, reconstructorVars>>

\* Repository.save_bible, second statement: INSERT the row; return next_version
SaveBibleInsert(p) ==
    /\ sessions[p].pc = "save_bible"
    /\ sharedDb' = [sharedDb EXCEPT !.bible = Append(@, sessions[p].next_version)]
    /\ sessions' = [sessions EXCEPT ![p].pc = "idle", ![p].next_version = 0]
    /\ UNCHANGED <<tokensAdded, resaved>>
    /\ UNCHANGED <<pipelineVars, resumeVars, bibleVars, chunkerVars, parserVars,
                   extractorVars, reconstructorVars>>

\* Repository.save_chunks: INSERT OR IGNORE of the book's chunks in one transaction
SaveChunks(p) ==
    /\ sessions[p].pc = "idle"
    /\ BookRowExists
    /\ \E n \in 1..MaxChunks :
          /\ sharedDb' = [sharedDb EXCEPT !.chunks = save_chunks(@, n)]
          /\ resaved' = (resaved \/ (n <= Len(sharedDb.chunks) /\ ProcessedRowExists))
    /\ UNCHANGED <<sessions, tokensAdded>>
    /\ UNCHANGED <<pipelineVars, resumeVars, bibleVars, chunkerVars, parserVars,
                   extractorVars, reconstructorVars>>

\* Repository.update_chunk_translation / flag_chunk on a stored row
UpdateChunk(p) ==
    /\ sessions[p].pc = "idle"
    /\ \E k \in 1..Len(sharedDb.chunks) :
          /\ sharedDb.chunks[k].status = PENDING
          /\ \/ sharedDb' = [sharedDb EXCEPT !.chunks =
                       update_chunk_translation(@, k, "T", Models[1], ConfidenceThreshold,
                                                _resolve_status(ConfidenceThreshold))]
             \/ sharedDb' = [sharedDb EXCEPT !.chunks =
                       flag_chunk(@, k, <<ErrorFlag([type |-> "RuntimeError",
                                                     msg |-> "failed"])>>)]
    /\ UNCHANGED <<sessions, tokensAdded, resaved>>
    /\ UNCHANGED <<pipelineVars, resumeVars, bibleVars, chunkerVars, parserVars,
                   extractorVars, reconstructorVars>>

\* Orchestrator.run, identification: book = self._repo.get_book_by_hash(file_hash)
GetBookByHash(p) ==
    /\ sessions[p].pc = "start"
    /\ sessions' = [sessions EXCEPT ![p].pc = IF BookRowExists THEN "resume" ELSE "create"]
    /\ UNCHANGED <<sharedDb, tokensAdded, resaved>>
    /\ UNCHANGED <<pipelineVars, resumeVars, bibleVars, chunkerVars, parserVars,
                   extractorVars, reconstructorVars>>

\* Repository.create_book: INSERT; file_hash is UNIQUE, a second row raises IntegrityError,
\* which Orchestrator.run does not catch
CreateBook(p) ==
    /\ sessions[p].pc = "create"
    /\ IF BookRowExists
       THEN /\ sessions' = [sessions EXCEPT ![p].pc = "failed",
                                            ![p].outcome = "IntegrityError"]
            /\ UNCHANGED sharedDb
       ELSE /\ sharedDb' = [sharedDb EXCEPT !.books =
                               Append(@, [file_hash |-> TheHash, status |-> IN_PROGRESS])]
            /\ sessions' = [sessions EXCEPT ![p].pc = "idle", ![p].outcome = "created"]
    /\ UNCHANGED <<tokensAdded, resaved>>
    /\ UNCHANGED <<pipelineVars, resumeVars, bibleVars, chunkerVars, parserVars,
                   extractorVars, reconstructorVars>>

\* Orchestrator.run on a book that was found: book_id = book.id, was_resumed = True
ResumeBook(p) ==
    /\ sessions[p].pc = "resume"
    /\ sessions' = [sessions EXCEPT ![p].pc = "idle", ![p].outcome = "resumed"]
    /\ UNCHANGED <<sharedDb, tokensAdded, resaved>>
    /\ UNCHANGED <<pipelineVars, resumeVars, bibleVars, chunkerVars, parserVars,
                   extractorVars, reconstructorVars>>

\* the process ends (run returned or died with the exception); a new one may start
EndSession(p) ==
    /\ sessions[p].pc \in {"idle", "failed"}
    /\ sessions' = [sessions EXCEPT ![p] = NewSession]
    /\ UNCHANGED <<sharedDb, tokensAdded, resaved>>
    /\ UNCHANGED <<pipelineVars, resumeVars, bibleVars, chunkerVars, parserVars,
                   extractorVars, reconstructorVars>>

InitStore ==
    /\ Init
    /\ mode = "translate"
    /\ nChunks = 0
    /\ useExtractor = FALSE

NextStore ==
    \/ \E p \in Sessions : AddTokenUsage(p)
    \/ \E p \in Sessions : SaveBibleSelectMax(p)
    \/ \E p \in Sessions : SaveBibleInsert(p)
    \/ \E p \in Sessions : SaveChunks(p)
    \/ \E p \in Sessions : UpdateChunk(p)
    \/ \E p \in Sessions : GetBookByHash(p)
    \/ \E p \in Sessions : CreateBook(p)
    \/ \E p \in Sessions : ResumeBook(p)
    \/ \E p \in Sessions : EndSession(p)

SpecStore == InitStore /\ [][NextStore]_vars

\* ------------------------------------------------------------------
\* One translate run over a book, interrupted between chunks and re-invoked.
\* The models answer deterministically: a translation is a function of the chunk
\* and of the bible its prompt was built from; an extraction is a function of the chunk.
\* A bible content is written as the set of chunks whose model extraction it holds.
\* ------------------------------------------------------------------
\* Orchestrator._load_or_init_bible: the latest stored version, or an empty bible
LatestBible(rows) == IF rows = <<>> THEN {} ELSE rows[Len(rows)]

\* one pass of the loop body of _process_chunks for the next pending chunk
ProcessOne(st, notes) ==
    LET chunk == st.processed + 1
        loaded == LatestBible(st.rows)
        d     == should_extract(chunk, notes[chunk], FALSE, st.counter)
        after == IF d.extract THEN loaded \cup {chunk} ELSE loaded
    IN  [processed |-> chunk,
         counter   |-> IF d.extract THEN 0 ELSE d.counter,
         rows      |-> Append(st.rows, after),
         prompts   |-> Append(st.prompts, loaded)]

\* the loop of _process_chunks run to its end by one process
RECURSIVE RunToEnd(_, _)
RunToEnd(st, notes) ==
    IF st.processed >= Len(notes) THEN st ELSE RunToEnd(ProcessOne(st, notes), notes)

\* a fresh process on a fresh database
FreshRun == [processed |-> 0, counter |-> 0, rows |-> <<>>, prompts |-> <<>>]

ProcessChunk ==
    /\ processed < Len(book_notes)
    /\ LET st == ProcessOne([processed |-> processed, counter |-> extract_counter,
                             rows |-> bible_saved, prompts |-> translated_with],
                            book_notes)
       IN  /\ processed' = st.processed
           /\ extract_counter' = st.counter
           /\ bible_saved' = st.rows
           /\ translated_with' = st.prompts
    /\ UNCHANGED <<book_notes, interruptions>>
    /\ UNCHANGED <<pipelineVars, storeVars, bibleVars, chunkerVars, parserVars,
                   extractorVars, reconstructorVars>>

\* Ctrl-C between two chunks, then the same command again: a new process builds a new
\* BibleExtractor (counter 0); the rows of the database are what the old one left
InterruptAndResume ==
    /\ processed > 0
    /\ processed < Len(book_notes)
    /\ interruptions < MaxInterruptions
    /\ extract_counter' = 0
    /\ interruptions' = interruptions + 1
    /\ UNCHANGED <<book_notes, processed, bible_saved, translated_with>>
    /\ UNCHANGED <<pipelineVars, storeVars, bibleVars, chunkerVars, parserVars,
                   extractorVars, reconstructorVars>>

InitResume ==
    /\ InitPipeline
    /\ mode = "translate"
    /\ nChunks = 0
    /\ useExtractor = TRUE
    /\ StoreIdle
    /\ BibleIdle
    /\ ChunkerIdle
    /\ ParserIdle
    /\ ExtractorIdle
    /\ ReconstructorIdle
    /\ book_notes \in UNION {[1..n -> BOOLEAN] : n \in 1..MaxBookChunks}
    /\ processed = 0
    /\ extract_counter = 0
    /\ bible_saved = <<>>
    /\ translated_with = <<>>
    /\ interruptions = 0

NextResume ==
    \/ ProcessChunk
    \/ InterruptAndResume

SpecResume == InitResume /\ [][NextResume]_vars

\* the updates the extractor and the local detector hand to apply
GlossaryItems(a, b, translation) ==
    [k \in 1..(b - a + 1) |-> [term |-> a + k - 1, translation |-> translation]]

CharacterItems(a, b, description) ==
    [k \in 1..(b - a + 1) |-> [name |-> a + k - 1, description |-> description]]

\* decision number k: its text ends in a word of k characters
Decision(k) == [text |-> <<W("usar", 4), S(1), W("regla", 5), S(1), W("n", k)>>,
                norm |-> k, family |-> k]

DecisionItems(a, b) == [k \in 1..(b - a + 1) |-> Decision(a + k - 1)]

RealDescription == <<W("Rol:", 4), S(1), W("protagonista", 12)>>
OtherDescription == <<W("Rol:", 4), S(1), W("rival", 5)>>

Updates ==
    << [NoUpdate EXCEPT !.glossary = GlossaryItems(1, 400, "A"),
                        !.characters = CharacterItems(1, 200, _GENERIC_CHARACTER_DESCRIPTION),
                        !.decisions = DecisionItems(1, 12),
                        !.last_scene = Some(<<S(2), W("Llegan", 6), S(3), W("al", 2), S(1)>>)],
       [NoUpdate EXCEPT !.glossary = GlossaryItems(301, 700, "B"),
                        !.characters = CharacterItems(101, 300, RealDescription),
                        !.decisions = DecisionItems(7, 25),
                        !.last_scene = Some(<<W("a", 200), S(1), W("b", 220)>>)],
       [NoUpdate EXCEPT !.glossary = GlossaryItems(1, 10, "B"),
                        !.voice = Some(<<S(1), W("primera", 7), S(1), W("persona", 7), S(2)>>)],
       [NoUpdate EXCEPT !.characters =
                            <<[name |-> 0, description |-> RealDescription],
                              [name |-> 5, description |-> <<S(2)>>],
                              [name |-> 6, description |-> RealDescription]>>],
       [NoUpdate EXCEPT !.rejected = [k \in 1..50 |-> k]],
       [NoUpdate EXCEPT !.decisions =
                            <<[text |-> <<S(3)>>, norm |-> 0, family |-> 0],
                              [text |-> <<W("Usar", 4), S(2), W("regla", 5), S(1), W("n", 3)>>,
                               norm |-> 3, family |-> 3],
                              [text |-> <<W("usa", 3), S(1), W("regla", 5), S(1), W("n", 3)>>,
                               norm |-> 1003, family |-> 3],
                              [text |-> <<W("!?", 2)>>, norm |-> 0, family |-> 0],
                              [text |-> <<W("c", 150), S(4), W("d", 150)>>, norm |-> 50,
                               family |-> 50]>>],
       [NoUpdate EXCEPT !.last_scene = Some(<<S(3)>>)],
       [NoUpdate EXCEPT !.last_scene = Some(<<W("a", 420)>>)],
       [NoUpdate EXCEPT !.last_scene = Some(<<W("a", 418), S(1), W("b", 100)>>)],
       [NoUpdate EXCEPT !.last_scene = Some(<<>>), !.voice = Some(<<S(2)>>)],
       [NoUpdate EXCEPT !.last_scene = Some(<<W("a", 200), S(50), W("b", 200), S(30)>>)],
       [NoUpdate EXCEPT !.voice = Some(<<W("presente", 8)>>)],
       [NoUpdate EXCEPT !.characters = <<[name |-> 6, description |-> OtherDescription]>>
                                       \o CharacterItems(150, 160, OtherDescription)],
       [NoUpdate EXCEPT !.characters = CharacterItems(101, 110, _GENERIC_CHARACTER_DESCRIPTION)],
       [NoUpdate EXCEPT !.rejected = <<6, 150>>,
                        !.characters = <<[name |-> 6, description |-> OtherDescription],
                                         [name |-> 150, description |-> OtherDescription]>>] >>

\* ------------------------------------------------------------------
\* The updates the orchestrator builds for a chunk
\* ------------------------------------------------------------------
_DEFAULT_VOICE ==
    <<W("narrador", 8), S(1), W("en", 2), S(1), W("tercera", 7), S(1),
      W("persona,", 8), S(1), W("tiempo", 6), S(1), W("pasado", 6)>>

\* what the local detector and the heuristics find in a chunk: the voice
\* _infer_narrative_voice returns, the detected names (with the generic description),
\* the decisions found in the notes and the scene digest
LocalChunks ==
    << [inferred  |-> <<W("narrador", 8), S(1), W("en", 2), S(1), W("primera", 7), S(1),
                        W("persona,", 8), S(1), W("tiempo", 6), S(1), W("presente", 8)>>,
        detected  |-> <<[name |-> 7, description |-> _GENERIC_CHARACTER_DESCRIPTION],
                        [name |-> 9, description |-> _GENERIC_CHARACTER_DESCRIPTION],
                        [name |-> 5, description |-> _GENERIC_CHARACTER_DESCRIPTION]>>,
        glossary  |-> <<>>,
        decisions |-> <<Decision(30), Decision(30)>>,
        digest    |-> <<W("Entran", 6), S(1), W("juntos.", 7)>>],
       [inferred  |-> _DEFAULT_VOICE,
        detected  |-> <<[name |-> 1, description |-> _GENERIC_CHARACTER_DESCRIPTION],
                        [name |-> 2, description |-> _GENERIC_CHARACTER_DESCRIPTION]>>,
        glossary  |-> <<>>,
        decisions |-> <<>>,
        digest    |-> <<W("Salen.", 6)>>] >>

\* what extractor.extract returns: None, or the update parsed from the model's reply
NoExtraction == [none |-> TRUE, update |-> NoUpdate]
Extracted(update) == [none |-> FALSE, update |-> update]

Extractions ==
    << NoExtraction,
       Extracted([NoUpdate EXCEPT
           !.voice = Some(<<W("primera", 7), S(1), W("persona,", 8), S(1), W("intima", 6)>>),
           !.glossary = <<[term |-> 1, translation |-> "X"]>>,
           !.characters = <<[name |-> 7, description |-> RealDescription],
                            [name |-> 8, description |-> RealDescription]>>,
           !.decisions = <<Decision(30), Decision(31)>>,
           !.rejected = <<1, 2, 9>>]),
       Extracted([NoUpdate EXCEPT
           !.voice = Some(<<W("tercera", 7), S(1), W("persona,", 8), S(1), W("epica", 5)>>),
           !.characters = <<[name |-> 9, description |-> RealDescription]>>,
           !.last_scene = Some(<<W("Resumen", 7), S(1), W("breve.", 6)>>),
           !.rejected = <<7>>]),
       Extracted([NoUpdate EXCEPT
           !.characters = <<[name |-> 5, description |-> RealDescription]>>,
           !.rejected = <<5>>]) >>

\* _build_local_bible_update: the voice is inferred only while the bible's voice is
\* empty or the default one
_build_local_bible_update(chunk, existing_voice) ==
    [NoUpdate EXCEPT
        !.voice = IF existing_voice = <<>> \/ existing_voice = _DEFAULT_VOICE
                  THEN Some(chunk.inferred) ELSE None,
        !.characters = chunk.detected,
        !.decisions = chunk.decisions,
        !.last_scene = Some(chunk.digest)]

\* dict(local).update(extracted) on glossary items: local keys keep their place and
\* take the extractor's value, the extractor's other keys follow
merge_glossary(local, extracted) ==
    [k \in 1..Len(local) |->
        IF \E e \in Range(extracted) : e.term = local[k].term
        THEN CHOOSE e \in Range(extracted) : e.term = local[k].term
        ELSE local[k]]
    \o SelectSeq(extracted, LAMBDA e : \A l \in Range(local) : l.term # e.term)

\* variant: the names the extractor rejected stay in the merged characters
merge_characters_keep_rejected(local, extracted, rejected) ==
    [k \in 1..Len(local) |->
        IF \E e \in Range(extracted) : e.name = local[k].name
        THEN CHOOSE e \in Range(extracted) : e.name = local[k].name
        ELSE local[k]]
    \o SelectSeq(extracted, LAMBDA e : \A l \in Range(local) : l.name # e.name)

\* dict(local).update(extracted) on characters, then pop of every rejected name
merge_characters(local, extracted, rejected) ==
    SelectSeq([k \in 1..Len(local) |->
                  IF \E e \in Range(extracted) : e.name = local[k].name
                  THEN CHOOSE e \in Range(extracted) : e.name = local[k].name
                  ELSE local[k]]
              \o SelectSeq(extracted, LAMBDA e : \A l \in Range(local) : l.name # e.name),
              LAMBDA c : c.name \notin Range(rejected))

\* local + extracted decisions, non-empty, first occurrence of each string kept
RECURSIVE merge_decisions(_, _)
merge_decisions(merged, items) ==
    IF items = <<>> THEN merged
    ELSE IF Head(items).text # <<>> /\ Head(items) \notin Range(merged)
         THEN merge_decisions(Append(merged, Head(items)), Tail(items))
         ELSE merge_decisions(merged, Tail(items))

\* _merge_bible_updates
_merge_bible_updates(local_update, extracted_update) ==
    IF extracted_update.none THEN local_update
    ELSE LET e == extracted_update.update IN
         [voice      |-> IF Truthy(e.voice) THEN e.voice ELSE local_update.voice,
          glossary   |-> merge_glossary(local_update.glossary, e.glossary),
          characters |-> merge_characters(local_update.characters, e.characters, e.rejected),
          decisions  |-> merge_decisions(<<>>, local_update.decisions \o e.decisions),
          last_scene |-> IF Truthy(e.last_scene) THEN e.last_scene
                         ELSE local_update.last_scene,
          rejected   |-> e.rejected]

Apply ==
    /\ applies < MaxApplies
    /\ \E u \in 1..Len(Updates) :
          /\ bible' = apply(bible, Updates[u])
          /\ last_update' = u
    /\ last_extracted' = 0
    /\ applies' = applies + 1
    /\ UNCHANGED <<pipelineVars, storeVars, resumeVars, chunkerVars, parserVars,
                   extractorVars, reconstructorVars>>

\* _process_chunks, bible step of one chunk: local update, merge with the extractor's
\* update, bible.apply(merged_update)
MergeApply ==
    /\ applies < MaxApplies
    /\ \E c \in 1..Len(LocalChunks), e \in 1..Len(Extractions) :
          /\ bible' = apply(bible,
                            _merge_bible_updates(
                                _build_local_bible_update(LocalChunks[c], bible.voice),
                                Extractions[e]))
          /\ last_extracted' = e
    /\ last_update' = 0
    /\ applies' = applies + 1
    /\ UNCHANGED <<pipelineVars, storeVars, resumeVars, chunkerVars, parserVars,
                   extractorVars, reconstructorVars>>

InitBible ==
    /\ InitPipeline
    /\ mode = "translate"
    /\ nChunks = 0
    /\ useExtractor = TRUE
    /\ StoreIdle
    /\ ResumeIdle
    /\ ChunkerIdle
    /\ ParserIdle
    /\ ExtractorIdle
    /\ ReconstructorIdle
    /\ bible = BookBible_empty
    /\ applies = 0
    /\ last_update = 0
    /\ last_extracted = 0

NextBible ==
    \/ Apply
    \/ MergeApply

SpecBible == InitBible /\ [][NextBible]_vars

\* ------------------------------------------------------------------
\* Chunker: BoundaryDetector.detect, ChunkNormalizer.normalize
\* ------------------------------------------------------------------
\* A section's text is its sequence of lines.  A line is a chapter heading
\* ("Chapter 1": two words, no final punctuation), a scene marker ("***":
\* one word), an empty line, or a line holding one sentence of `words`
\* words that starts with a capital and ends with a full stop.  Inside a
\* text, `id` is the line's position in the section (0 for a separator the
\* normalizer inserted), an empty line between two lines is the "\n\n" of
\* the code and adjacent lines are separated by a single whitespace.
MaxLines == 5

WordChoices == {1, 3, 6}

ChapterLine == [kind |-> "chapter", words |-> 2]
SceneLine == [kind |-> "scene", words |-> 1]
BlankLine == [kind |-> "blank", words |-> 0]
TextLine(n) == [kind |-> "text", words |-> n]

LineChoices == {ChapterLine, SceneLine, BlankLine} \cup {TextLine(n) : n \in WordChoices}

ConfigChoices ==
    {[min_tokens |-> 4, max_tokens |-> 6], [min_tokens |-> 2, max_tokens |-> 3]}

ParagraphBreak == [id |-> 0, kind |-> "blank", words |-> 0]

\* splitlines(keepends=True): every line keeps its position
splitlines(lines) ==
    [k \in 1..Len(lines) |-> [id |-> k, kind |-> lines[k].kind, words |-> lines[k].words]]

RECURSIVE CountWords(_)
\* len(text.split())
CountWords(text) ==
    IF text = <<>> THEN 0 ELSE Head(text).words + CountWords(Tail(text))

\* SimpleTokenEstimator.estimate: int(len(text.split()) * 1.3)
estimate(text) == (13 * CountWords(text)) \div 10

RECURSIVE lstrip_text(_)
lstrip_text(text) ==
    IF text # <<>> /\ Head(text).kind = "blank" THEN lstrip_text(Tail(text)) ELSE text

RECURSIVE rstrip_text(_)
rstrip_text(text) ==
    IF text # <<>> /\ text[Len(text)].kind = "blank"
    THEN rstrip_text(SubSeq(text, 1, Len(text) - 1))
    ELSE text

\* str.strip()
strip_text(text) == rstrip_text(lstrip_text(text))

\* BoundaryDetector._classify_line; "none" is the code's None
_classify_line(all_lines, index) ==
    LET line == all_lines[index] IN
    IF line.kind = "blank"
    THEN IF index > 1 /\ index < Len(all_lines) /\ all_lines[index - 1].kind = "blank"
         THEN "scene"
         ELSE "none"
    ELSE IF line.kind = "chapter" THEN "chapter"
    ELSE IF line.kind = "scene" THEN "scene"
    ELSE "none"

TextSegment(text, boundary_type) ==
    [text |-> text, boundary_type |-> boundary_type, token_estimated |-> estimate(text)]

\* the segment closed from current_lines, if its stripped text is not empty
CloseSegment(current_lines, current_boundary) ==
    IF strip_text(current_lines) # <<>>
    THEN <<TextSegment(strip_text(current_lines), current_boundary)>>
    ELSE <<>>

\* (mutant) the line that marks a boundary is not carried into the new segment
NextLinesAfterBoundary_Dropped(line) == <<>>

\* current_lines = [line]
NextLinesAfterBoundary(line) == <<line>>

RECURSIVE DetectFrom(_, _, _, _)
\* the loop of BoundaryDetector.detect from line k on
DetectFrom(lines, k, current_lines, current_boundary) ==
    IF k > Len(lines)
    THEN IF current_lines # <<>> THEN CloseSegment(current_lines, current_boundary) ELSE <<>>
    ELSE LET boundary == _classify_line(lines, k) IN
         IF boundary # "none"
         THEN IF current_lines # <<>>
              THEN CloseSegment(current_lines, current_boundary)
                   \o DetectFrom(lines, k + 1, NextLinesAfterBoundary(lines[k]), boundary)
              ELSE DetectFrom(lines, k + 1, Append(current_lines, lines[k]), boundary)
         ELSE DetectFrom(lines, k + 1, Append(current_lines, lines[k]), current_boundary)

\* BoundaryDetector.detect
detect(lines) == DetectFrom(splitlines(lines), 1, <<>>, "paragraph")

\* ChunkNormalizer._make_subsegment
_make_subsegment(text) == TextSegment(text, "paragraph")

RECURSIVE SplitParagraphs(_, _)
\* text.split("\n\n"), each part stripped, empty parts dropped
SplitParagraphs(text, current) ==
    IF text = <<>>
    THEN IF current # <<>> THEN <<current>> ELSE <<>>
    ELSE IF Head(text).kind = "blank"
    THEN (IF current # <<>> THEN <<current>> ELSE <<>>) \o SplitParagraphs(Tail(text), <<>>)
    ELSE SplitParagraphs(Tail(text), Append(current, Head(text)))

RECURSIVE SplitSentences(_, _)
\* sentence_endings.split(text): a cut after final punctuation and whitespace,
\* before a capital letter
SplitSentences(text, current) ==
    IF text = <<>>
    THEN IF current # <<>> THEN <<current>> ELSE <<>>
    ELSE LET head == Head(text)
             rest == Tail(text)
             cut == /\ head.kind = "text"
                    /\ rest # <<>>
                    /\ Head(rest).kind \in {"text", "chapter"}
         IN IF cut
            THEN <<Append(current, head)>> \o SplitSentences(rest, <<>>)
            ELSE SplitSentences(rest, Append(current, head))

RECURSIVE JoinParts(_, _)
\* sep.join(parts)
JoinParts(parts, sep) ==
    IF parts = <<>> THEN <<>>
    ELSE IF Len(parts) = 1 THEN parts[1]
    ELSE parts[1] \o sep \o JoinParts(Tail(parts), sep)

RECURSIVE PackSentences(_, _, _, _, _)
\* the loop of ChunkNormalizer._split_by_sentences from sentence k on
PackSentences(sentences, k, current_parts, current_tokens, max_tokens) ==
    LET flushed == IF current_parts # <<>>
                   THEN <<_make_subsegment(JoinParts(current_parts, <<>>))>>
                   ELSE <<>>
    IN IF k > Len(sentences) THEN flushed
       ELSE LET sentence == sentences[k]
                sentence_tokens == estimate(sentence)
            IN IF sentence_tokens > max_tokens
               THEN flushed \o <<_make_subsegment(sentence)>>
                    \o PackSentences(sentences, k + 1, <<>>, 0, max_tokens)
               ELSE IF current_tokens + sentence_tokens > max_tokens /\ current_parts # <<>>
               THEN flushed
                    \o PackSentences(sentences, k + 1, <<sentence>>, sentence_tokens, max_tokens)
               ELSE PackSentences(sentences, k + 1, Append(current_parts, sentence),
                                  current_tokens + sentence_tokens, max_tokens)

\* ChunkNormalizer._split_by_sentences
_split_by_sentences(text, max_tokens) ==
    PackSentences(SplitSentences(text, <<>>), 1, <<>>, 0, max_tokens)

RECURSIVE PackParagraphs(_, _, _, _, _)
\* the loop of ChunkNormalizer._split_segment from paragraph k on
PackParagraphs(paragraphs, k, current_parts, current_tokens, max_tokens) ==
    LET flushed == IF current_parts # <<>>
                   THEN <<_make_subsegment(JoinParts(current_parts, <<ParagraphBreak>>))>>
                   ELSE <<>>
    IN IF k > Len(paragraphs) THEN flushed
       ELSE LET para == paragraphs[k]
                para_tokens == estimate(para)
            IN IF para_tokens > max_tokens
               THEN flushed \o _split_by_sentences(para, max_tokens)
                    \o PackParagraphs(paragraphs, k + 1, <<>>, 0, max_tokens)
               ELSE IF current_tokens + para_tokens > max_tokens /\ current_parts # <<>>
               THEN flushed
                    \o PackParagraphs(paragraphs, k + 1, <<para>>, para_tokens, max_tokens)
               ELSE PackParagraphs(paragraphs, k + 1, Append(current_parts, para),
                                   current_tokens + para_tokens, max_tokens)

\* ChunkNormalizer._split_segment
_split_segment(segment, max_tokens) ==
    LET paragraphs == SplitParagraphs(segment.text, <<>>) IN
    IF Len(paragraphs) <= 1
    THEN _split_by_sentences(segment.text, max_tokens)
    ELSE PackParagraphs(paragraphs, 1, <<>>, 0, max_tokens)

RECURSIVE _expand_large_segments(_, _)
_expand_large_segments(segments, max_tokens) ==
    IF segments = <<>> THEN <<>>
    ELSE (IF Head(segments).token_estimated <= max_tokens
          THEN <<Head(segments)>>
          ELSE _split_segment(Head(segments), max_tokens))
         \o _expand_large_segments(Tail(segments), max_tokens)

\* (mutant) the merge looks at the sizes only
can_merge_any_boundary(previous, current, config) ==
    /\ previous.token_estimated < config.min_tokens
    /\ previous.token_estimated + current.token_estimated <= config.max_tokens

\* can_merge of ChunkNormalizer._merge_small_segments
can_merge(previous, current, config) ==
    /\ previous.token_estimated < config.min_tokens
    /\ previous.token_estimated + current.token_estimated <= config.max_tokens
    /\ current.boundary_type # "chapter"
    /\ previous.boundary_type # "chapter"

RECURSIVE MergeFrom(_, _, _, _)
\* the loop of ChunkNormalizer._merge_small_segments from segment k on
MergeFrom(segments, k, result, config) ==
    IF k > Len(segments) THEN result
    ELSE LET current == segments[k]
             previous == result[Len(result)]
         IN IF can_merge(previous, current, config)
            THEN MergeFrom(segments, k + 1,
                           [result EXCEPT ![Len(result)] =
                               TextSegment(previous.text \o <<ParagraphBreak>> \o current.text,
                                           previous.boundary_type)],
                           config)
            ELSE MergeFrom(segments, k + 1, Append(result, current), config)

\* ChunkNormalizer._merge_small_segments
_merge_small_segments(segments, config) ==
    IF segments = <<>> THEN <<>> ELSE MergeFrom(segments, 2, <<segments[1]>>, config)

\* ChunkNormalizer._to_chunks
_to_chunks(segments) ==
    [k \in 1..Len(segments) |->
        [index |-> k - 1,
         original |-> segments[k].text,
         token_estimated |-> segments[k].token_estimated]]

\* ChunkNormalizer.normalize
normalize(segments, config) ==
    IF segments = <<>> THEN <<>>
    ELSE _to_chunks(_merge_small_segments(
             _expand_large_segments(segments, config.max_tokens), config))

\* Chunker.chunk over a book of one section
chunk(lines, config) == normalize(detect(lines), config)

\* Chunker.chunk is called on the book
ChunkBook ==
    /\ ~chunker.done
    /\ chunker' = [chunker EXCEPT !.all_chunks = chunk(chunker.lines, chunker.config),
                                  !.done = TRUE]
    /\ UNCHANGED <<pipelineVars, storeVars, resumeVars, bibleVars, parserVars,
                   extractorVars, reconstructorVars>>

InitChunker ==
    /\ InitPipeline
    /\ mode = "translate"
    /\ nChunks = 0
    /\ useExtractor = TRUE
    /\ StoreIdle
    /\ ResumeIdle
    /\ BibleIdle
    /\ ParserIdle
    /\ ExtractorIdle
    /\ ReconstructorIdle
    /\ \E n \in 1..MaxLines : \E lines \in [1..n -> LineChoices] : \E config \in ConfigChoices :
          chunker = [lines |-> lines, config |-> config, all_chunks |-> <<>>, done |-> FALSE]

NextChunker == ChunkBook

SpecChunker == InitChunker /\ [][NextChunker]_vars

\* ------------------------------------------------------------------
\* Response parser: parse_model_response, and the chunk row stored from it
\* ------------------------------------------------------------------
\* A reply is a sequence of runs: whitespace, prose without braces or
\* backticks, a code fence, the text of a JSON object, of a JSON list, or a
\* brace-delimited text that is not JSON.
MaxPieces == 3

Prose == W("prose", 5)
Fence == W("fence", 3)
JsonFull == W("{translation, confidence}", 40)
JsonNoConfidence == W("{translation}", 20)
JsonEmpty == W("{}", 2)
JsonList == W("[1, 2]", 6)
Broken == W("{broken}", 8)
JsonNoTranslation == W("{confidence}", 19)
JsonTextOnly == W("{text, confidence}", 30)
JsonExtraction == W("{voice, glossary, characters, rejected, decisions, last_scene}", 60)
JsonWrappedExtraction == W("{translation: {voice, glossary, ...}, confidence}", 80)

PieceChoices ==
    {S(1), Prose, Fence, JsonFull, JsonNoConfidence, JsonEmpty, JsonList, Broken,
     JsonNoTranslation, JsonTextOnly, JsonExtraction, JsonWrappedExtraction}

\* runs that are a JSON object
JsonObjects ==
    {JsonFull, JsonNoConfidence, JsonEmpty, JsonNoTranslation, JsonTextOnly,
     JsonExtraction, JsonWrappedExtraction}

\* runs that start with "{" and end with "}"
Braced == JsonObjects \cup {Broken}

\* the translation the JSON objects carry
ReplyTranslation == <<W("T", 9)>>

\* the keys of the JSON object the extraction prompt asks for
ExtractionKeys == {"voice", "glossary", "characters", "rejected", "decisions", "last_scene"}

\* the values a reply to the extraction prompt carries
ReplyUpdate ==
    [voice |-> Some(<<W("primera", 7), S(1), W("persona", 7)>>),
     glossary |-> <<[term |-> 1, translation |-> "X"]>>,
     characters |-> <<[name |-> 7, description |-> RealDescription]>>,
     decisions |-> <<Decision(1)>>,
     last_scene |-> Some(<<W("Llegan", 6), S(1), W("al", 2), S(1), W("puerto.", 7)>>),
     rejected |-> <<9>>]

\* the empty JSON object
EmptyDict ==
    [none |-> FALSE, keys |-> {}, translation |-> <<>>, text |-> <<>>, result |-> <<>>,
     confidence |-> 0, update |-> NoUpdate]

\* Python None where a dict is expected
NoDict == [EmptyDict EXCEPT !.none = TRUE]

\* json.loads of one run that is a JSON object
LoadedDict(run) ==
    IF run = JsonFull
    THEN [EmptyDict EXCEPT !.keys = {"translation", "confidence"},
                           !.translation = ReplyTranslation, !.confidence = 90]
    ELSE IF run = JsonNoConfidence
    THEN [EmptyDict EXCEPT !.keys = {"translation"}, !.translation = ReplyTranslation]
    ELSE IF run = JsonNoTranslation
    THEN [EmptyDict EXCEPT !.keys = {"confidence"}, !.confidence = 90]
    ELSE IF run = JsonTextOnly
    THEN [EmptyDict EXCEPT !.keys = {"text", "confidence"}, !.text = ReplyTranslation,
                           !.confidence = 90]
    ELSE IF run = JsonExtraction
    THEN [EmptyDict EXCEPT !.keys = ExtractionKeys, !.update = ReplyUpdate]
    ELSE IF run = JsonWrappedExtraction
    THEN [EmptyDict EXCEPT !.keys = {"translation", "confidence"},
                           !.translation = <<JsonExtraction>>, !.confidence = 90]
    ELSE EmptyDict

\* _try_parse: the dict json.loads yields, None for invalid JSON and for
\* JSON that is not an object
_try_parse(text) ==
    LET t == strip(text) IN
    IF Len(t) = 1 /\ t[1] \in JsonObjects
    THEN LoadedDict(t[1])
    ELSE NoDict

\* (if result:) a dict that is neither None nor empty
DictTruthy(d) == ~d.none /\ d.keys # {}

\* position of the first run after k that is not whitespace, 0 if none
NextNonWs(text, k) ==
    LET after == {j \in (k + 1)..Len(text) : ~text[j].ws} IN
    IF after = {} THEN 0 ELSE CHOOSE j \in after : \A h \in after : j <= h

\* the matches of _MARKDOWN_JSON_RE (fence, whitespace, the shortest group from
\* "{" to a "}" that is followed by whitespace and a fence) that start at fence k:
\* <<start, end>> of the group
MarkdownGroupsAt(text, k) ==
    {se \in (1..Len(text)) \X (1..Len(text)) :
        /\ text[k] = Fence
        /\ se[1] = NextNonWs(text, k)
        /\ text[se[1]] \in Braced
        /\ se[2] >= se[1]
        /\ text[se[2]] \in Braced
        /\ NextNonWs(text, se[2]) # 0
        /\ text[NextNonWs(text, se[2])] = Fence}

\* _MARKDOWN_JSON_RE.search(text): the leftmost match, its group the shortest
_MARKDOWN_JSON_RE_search(text) ==
    LET starts == {k \in 1..Len(text) : MarkdownGroupsAt(text, k) # {}} IN
    IF starts = {} THEN [found |-> FALSE, group |-> <<>>]
    ELSE LET k == CHOOSE j \in starts : \A h \in starts : j <= h
             groups == MarkdownGroupsAt(text, k)
             se == CHOOSE g \in groups : \A h \in groups : g[2] <= h[2]
         IN [found |-> TRUE, group |-> SubSeq(text, se[1], se[2])]

\* _BARE_JSON_RE.search(text): from the first "{" to the last "}"
_BARE_JSON_RE_search(text) ==
    LET braces == {k \in 1..Len(text) : text[k] \in Braced} IN
    IF braces = {} THEN [found |-> FALSE, group |-> <<>>]
    ELSE [found |-> TRUE,
          group |-> SubSeq(text, CHOOSE a \in braces : \A h \in braces : a <= h,
                                 CHOOSE b \in braces : \A h \in braces : b >= h)]

\* max(0.0, min(1.0, confidence)), in hundredths
Clamp(confidence) ==
    IF confidence < 0 THEN 0 ELSE IF confidence > 100 THEN 100 ELSE confidence

\* _validate_and_fill
_validate_and_fill(data) ==
    LET translation == IF "translation" \in data.keys THEN strip(data.translation)
                       ELSE <<>>
        fallback == IF "text" \in data.keys /\ data.text # <<>> THEN strip(data.text)
                    ELSE IF "result" \in data.keys THEN strip(data.result)
                    ELSE <<>>
    IN [translation |-> IF translation # <<>> THEN translation ELSE fallback,
        confidence |-> IF "confidence" \in data.keys THEN Clamp(data.confidence) ELSE 50,
        notes |-> "Sin notas."]

\* (mutant) the emergency result carries the confidence of a clean reply
EmergencyResult_Confident(text) ==
    [translation |-> text, confidence |-> 90, notes |-> "ADVERTENCIA"]

\* the dict returned when no matcher found a JSON object
EmergencyResult(text) ==
    [translation |-> text, confidence |-> 30, notes |-> "ADVERTENCIA"]

\* parse_model_response
parse_model_response(raw_text) ==
    LET text == strip(raw_text)
        direct == _try_parse(text)
        markdown == _MARKDOWN_JSON_RE_search(text)
        bare == _BARE_JSON_RE_search(text)
    IN IF DictTruthy(direct) THEN _validate_and_fill(direct)
       ELSE IF markdown.found /\ DictTruthy(_try_parse(markdown.group))
       THEN _validate_and_fill(_try_parse(markdown.group))
       ELSE IF bare.found /\ DictTruthy(_try_parse(bare.group))
       THEN _validate_and_fill(_try_parse(bare.group))
       ELSE EmergencyResult(text)

\* the adapter's translate after the API call returned raw_text
AdapterResponse(raw_text, m) ==
    LET parsed == parse_model_response(raw_text) IN
    [translation |-> parsed.translation, confidence |-> parsed.confidence,
     model_used |-> Models[m]]

\* one chunk is translated: the adapter parses the reply, the orchestrator
\* stores the row
TranslateChunk ==
    /\ ~parser.done
    /\ ~parser.extracted
    /\ LET r == AdapterResponse(parser.raw_text, 1) IN
       parser' = [parser EXCEPT
                     !.response = r,
                     !.rows = update_chunk_translation(@, 1, r.translation, r.model_used,
                                                       r.confidence,
                                                       _resolve_status(r.confidence)),
                     !.done = TRUE]
    /\ UNCHANGED <<pipelineVars, storeVars, resumeVars, bibleVars, chunkerVars,
                   extractorVars, reconstructorVars>>

\* BibleExtractor._try_parse_json: the first of the three attempts that yields a dict
_try_parse_json(text) ==
    LET direct == _try_parse(text)
        markdown == _MARKDOWN_JSON_RE_search(text)
        bare == _BARE_JSON_RE_search(text)
    IN IF ~direct.none THEN direct
       ELSE IF markdown.found /\ ~_try_parse(markdown.group).none
       THEN _try_parse(markdown.group)
       ELSE IF bare.found /\ ~_try_parse(bare.group).none
       THEN _try_parse(bare.group)
       ELSE NoDict

\* BibleExtractor._parse_update
_parse_update(raw_text) ==
    LET data == _try_parse_json(strip(raw_text)) IN
    IF ~DictTruthy(data) THEN NoUpdate
    ELSE [voice |-> IF "voice" \in data.keys THEN data.update.voice ELSE None,
          glossary |-> IF "glossary" \in data.keys THEN data.update.glossary ELSE <<>>,
          characters |-> IF "characters" \in data.keys THEN data.update.characters
                         ELSE <<>>,
          decisions |-> IF "decisions" \in data.keys THEN data.update.decisions ELSE <<>>,
          last_scene |-> IF "last_scene" \in data.keys THEN data.update.last_scene
                         ELSE None,
          rejected |-> IF "rejected" \in data.keys THEN data.update.rejected ELSE <<>>]

\* BibleExtractor.extract in the factory's pipeline, where self._model is the
\* router: the adapter parses the provider's reply into a ModelResponse and the
\* extractor parses that response's translation
ExtractFromReply ==
    /\ ~parser.done
    /\ ~parser.extracted
    /\ LET r == AdapterResponse(parser.raw_text, 1) IN
       parser' = [parser EXCEPT
                     !.response = r,
                     !.update = _parse_update(r.translation),
                     !.extracted = TRUE]
    /\ UNCHANGED <<pipelineVars, storeVars, resumeVars, bibleVars, chunkerVars,
                   extractorVars, reconstructorVars>>

InitParser ==
    /\ InitPipeline
    /\ mode = "translate"
    /\ nChunks = 0
    /\ useExtractor = TRUE
    /\ StoreIdle
    /\ ResumeIdle
    /\ BibleIdle
    /\ ChunkerIdle
    /\ ExtractorIdle
    /\ ReconstructorIdle
    /\ \E n \in 1..MaxPieces : \E raw_text \in [1..n -> PieceChoices] :
          parser = [raw_text |-> raw_text, response |-> NoResponse,
                    rows |-> <<NewChunkRow>>, done |-> FALSE, update |-> NoUpdate,
                    extracted |-> FALSE]

NextParser ==
    \/ TranslateChunk
    \/ ExtractFromReply

SpecParser == InitParser /\ [][NextParser]_vars

\* ------------------------------------------------------------------
\* One BibleExtractor object called for the successive chunks of a book
\* ------------------------------------------------------------------
MaxExtractCalls == 7

\* BibleExtractor.extract for the next chunk: should_extract, then the model
\* call, which returns (model_ok) or raises.  History: since_invocation counts
\* the chunks since the model was last queried, plain_since_return the chunks
\* that were neither first nor forced nor keyword-marked since the last query
\* that returned; `last` keeps both as they stood at this call, this chunk
\* included.
ExtractCall(keyword, force, model_ok) ==
    /\ extractor.calls < MaxExtractCalls
    /\ LET d == should_extract(extractor.next_index + 1, keyword, force, extractor.counter)
           passed == extractor.since_invocation + 1
           plain == IF extractor.next_index = 0 \/ force \/ keyword
                    THEN extractor.plain_since_return
                    ELSE extractor.plain_since_return + 1
       IN extractor' =
              [counter |-> IF d.extract /\ model_ok THEN 0 ELSE d.counter,
               next_index |-> extractor.next_index + 1,
               since_invocation |-> IF d.extract THEN 0 ELSE passed,
               plain_since_return |-> IF d.extract /\ model_ok THEN 0 ELSE plain,
               calls |-> extractor.calls + 1,
               last |-> [chunk_index |-> extractor.next_index, keyword |-> keyword,
                         force |-> force, passed |-> passed, plain_passed |-> plain,
                         queried |-> d.extract, returned |-> d.extract /\ model_ok]]
    /\ UNCHANGED <<pipelineVars, storeVars, resumeVars, bibleVars, chunkerVars,
                   parserVars, reconstructorVars>>

InitExtractor ==
    /\ InitPipeline
    /\ mode = "translate"
    /\ nChunks = 0
    /\ useExtractor = TRUE
    /\ StoreIdle
    /\ ResumeIdle
    /\ BibleIdle
    /\ ChunkerIdle
    /\ ParserIdle
    /\ ExtractorIdle
    /\ ReconstructorIdle

NextExtractor ==
    \E keyword \in BOOLEAN, force \in BOOLEAN, model_ok \in BOOLEAN :
        ExtractCall(keyword, force, model_ok)

SpecExtractor == InitExtractor /\ [][NextExtractor]_vars

\* ------------------------------------------------------------------
\* Reconstructor.build over the rows of one book
\* ------------------------------------------------------------------
MaxRows == 3

SectionChoices == {0, 1}

_REVIEW_MARKER == <<W("PENDIENTE DE REVISION", 1), S(1)>>

\* chunks.original and a model's translation of the chunk with chunk_index k - 1
OriginalOf(k) == <<W("original", k)>>
TranslationOf(k) == <<W("translated", k)>>

\* the (status, translated) pairs the pipeline stores: a PENDING row has no
\* translation, a row flagged by an exception may have none, a stored reply may
\* carry an empty translation
StoredChoices(k) ==
    {[status |-> PENDING, translated |-> None]}
    \cup {[status |-> st, translated |-> Some(t)] :
             st \in {DONE, FLAGGED}, t \in {<<>>, TranslationOf(k)}}
    \cup {[status |-> FLAGGED, translated |-> None]}

\* get_all_chunks: the rows of the book ORDER BY chunk_index ASC
StoredRow(k, stored, section) ==
    [chunk_index |-> k - 1, original |-> OriginalOf(k), status |-> stored.status,
     translated |-> stored.translated, source_section |-> section]

\* variant: every FLAGGED chunk gets the marker and its original
_resolve_chunk_text_marks_flagged(row) ==
    IF row.status = FLAGGED THEN _REVIEW_MARKER \o row.original
    ELSE IF Truthy(row.translated) THEN row.translated.text
    ELSE row.original

\* Reconstructor._resolve_chunk_text
_resolve_chunk_text(row) ==
    IF Truthy(row.translated) THEN row.translated.text
    ELSE IF row.status = FLAGGED THEN _REVIEW_MARKER \o row.original
    ELSE row.original

NoSection == -1

\* the two line breaks that build puts between two parts, and adds as a part of
\* its own between two sections
BlankLines == <<S(2)>>

RECURSIVE BuildParts(_, _, _)
\* the for loop of Reconstructor.build from row k on
BuildParts(rows, k, prev_section) ==
    IF k > Len(rows) THEN <<>>
    ELSE (IF prev_section # NoSection /\ rows[k].source_section # prev_section
          THEN <<BlankLines>>
          ELSE <<>>)
         \o <<_resolve_chunk_text(rows[k])>>
         \o BuildParts(rows, k + 1, rows[k].source_section)

\* Reconstructor.build: ValueError without rows, else the text written to the file
Build ==
    /\ ~reconstructor.built
    /\ IF reconstructor.rows = <<>>
       THEN reconstructor' = [reconstructor EXCEPT !.built = TRUE, !.raised = TRUE]
       ELSE LET parts == BuildParts(reconstructor.rows, 1, NoSection) IN
            reconstructor' = [reconstructor EXCEPT
                                 !.built = TRUE,
                                 !.parts = parts,
                                 !.output = JoinParts(parts, BlankLines)]
    /\ UNCHANGED <<pipelineVars, storeVars, resumeVars, bibleVars, chunkerVars,
                   parserVars, extractorVars>>

InitReconstructor ==
    /\ InitPipeline
    /\ mode = "translate"
    /\ nChunks = 0
    /\ useExtractor = TRUE
    /\ StoreIdle
    /\ ResumeIdle
    /\ BibleIdle
    /\ ChunkerIdle
    /\ ParserIdle
    /\ ExtractorIdle
    /\ \E n \in 0..MaxRows :
          \E stored \in [1..n -> UNION {StoredChoices(k) : k \in 1..n}],
             section \in [1..n -> SectionChoices] :
             /\ \A k \in 1..n : stored[k] \in StoredChoices(k)
             /\ \A k \in 1..(n - 1) : section[k] <= section[k + 1]
             /\ reconstructor = [rows |-> [k \in 1..n |->
                                              StoredRow(k, stored[k], section[k])],
                                 parts |-> <<>>, output |-> <<>>, built |-> FALSE,
                                 raised |-> FALSE]

NextReconstructor == Build

SpecReconstructor == InitReconstructor /\ [][NextReconstructor]_vars

\* ------------------------------------------------------------------
\* Properties
\* ------------------------------------------------------------------
RECURSIVE SumTo(_, _)
SumTo(f, n) == IF n = 0 THEN 0 ELSE f[n] + SumTo(f, n - 1)

NoPendingChunk == \A k \in 1..Len(chunks) : chunks[k].status # PENDING
PendingAtStart == {k \in 1..Len(startStatus) : startStatus[k] = PENDING}

\* C1, as stated: whenever the router raises AllModelsExhausted while a chunk is being
\* processed, the loop stops and that chunk is still PENDING.
C1_AnyExhaustionStopsLoop ==
    [][(pc = "router" /\ routerFor \in {"translate", "extract"}
        /\ routerJ > NModels /\ pc' \notin {"router", "idle"})
       => (pc' = "reconstruct" /\ chunks'[pending[i]].status = PENDING)]_vars

\* C1, amended: when the router raises AllModelsExhausted to the translation call of
\* pending chunk k, the loop stops; chunk k and every later pending chunk stay PENDING
\* with no translation and no flags, the chunks handled before k keep their DONE or
\* FLAGGED status, no chunk row changes afterwards in that run, and the book is
\* IN_PROGRESS when the run returns.
C1_ExhaustionPausesRun ==
    /\ [](ameChunk # 0 =>
            /\ pc \in {"reconstruct", "idle"}
            /\ \A k \in 1..Len(chunks) :
                 /\ (k >= ameChunk /\ startStatus[k] = PENDING)
                       => (/\ chunks[k].status = PENDING
                           /\ chunks[k].flags = <<>>
                           /\ chunks[k].translated = NULL)
                 /\ (k < ameChunk /\ startStatus[k] = PENDING)
                       => chunks[k].status \in {DONE, FLAGGED}
                 /\ startStatus[k] # PENDING => chunks[k].status = startStatus[k]
            /\ (outcome = "returned" => bookStatus = IN_PROGRESS))
    /\ [][(ameChunk # 0 /\ ameChunk' # 0) => chunks' = chunks]_vars

C1_Witness ==
    /\ outcome = "returned"
    /\ ameChunk = 2
    /\ chunks[1].status = DONE
    /\ chunks[2].status = PENDING
    /\ bookStatus = IN_PROGRESS

\* C2: the DONE or FLAGGED chunks always form a prefix in chunk_index order: no PENDING
\* chunk has a lower index than a DONE or FLAGGED one.
C2_DonePrefix ==
    \A j \in 1..Len(chunks), k \in 1..Len(chunks) :
        (j < k /\ chunks[k].status \in {DONE, FLAGGED}) => chunks[j].status # PENDING

C2_Witness ==
    /\ outcome = "interrupted"
    /\ Len(chunks) = 2
    /\ chunks[1].status \in {DONE, FLAGGED}
    /\ chunks[2].status = PENDING

\* a run that found some chunks completed and some PENDING
ResumedRun == PendingAtStart # {} /\ PendingAtStart # 1..Len(startStatus)

\* C3, as stated (for a resumed run that is not paused again): when it returns,
\* router.translate has been called exactly once for each chunk that was PENDING, never
\* for another, and total - completed times in all.
C3_CallsEqualPending ==
    (outcome = "returned" /\ ResumedRun /\ ameChunk = 0)
    => /\ \A k \in 1..Len(startStatus) :
             trCalls[k] = IF k \in PendingAtStart THEN 1 ELSE 0
       /\ routerCalls = Len(startStatus) - (Len(startStatus) - Cardinality(PendingAtStart))

\* C3, amended: in a resumed run the translation step calls router.translate at most once
\* per chunk: exactly once for every chunk that was PENDING and that the loop reached
\* (all of them unless the run paused on AllModelsExhausted at an earlier chunk), never
\* for a chunk already DONE or FLAGGED; the router is called that many times in all when
\* the extractor does not use it, and at most once more per translated chunk when it does.
C3_OneTranslationCallPerReachedChunk ==
    (outcome = "returned" /\ ResumedRun)
    => /\ \A k \in 1..Len(startStatus) :
             trCalls[k] = IF k \in PendingAtStart /\ (ameChunk = 0 \/ k <= ameChunk)
                          THEN 1 ELSE 0
       /\ routerCalls >= SumTo(trCalls, Len(startStatus))
       /\ routerCalls <= 2 * SumTo(trCalls, Len(startStatus))
       /\ ~useExtractor => routerCalls = SumTo(trCalls, Len(startStatus))

C3_Witness ==
    /\ outcome = "returned"
    /\ Len(startStatus) = 2
    /\ startStatus[1] = DONE
    /\ startStatus[2] = PENDING
    /\ trCalls[1] = 0
    /\ trCalls[2] = 1
    /\ ameChunk = 0
    /\ useExtractor
    /\ routerCalls = 2

\* C4, as stated: once a run has returned and no chunk of the book is PENDING, the next
\* invocation raises BookAlreadyDone and changes no stored row.
C4_CompletedBookRaises ==
    [][(Identify /\ outcome = "returned" /\ Len(chunks) > 0 /\ NoPendingChunk)
       => (outcome' = "BookAlreadyDone" /\ UNCHANGED dbVars)]_vars

\* C5, as stated: whenever an entry point returns normally, the stored book status is
\* DONE if the book has zero PENDING chunks and IN_PROGRESS otherwise.
C5_StatusMatchesPending ==
    (pc = "idle" /\ outcome = "returned")
    => bookStatus = IF NoPendingChunk THEN BOOK_DONE ELSE IN_PROGRESS

\* C6: a model response is stored with status DONE exactly when its confidence is at
\* least 0.75 and FLAGGED otherwise, translation, model name, confidence and status are
\* written in one step, and no row ever has a translation while still PENDING.
C6_AtomicPersist ==
    /\ [](\A k \in 1..Len(chunks) :
             chunks[k].translated # NULL => chunks[k].status # PENDING)
    /\ [][(pc = "persist" /\ pc' = "extract")
          => /\ chunks'[pending[i]].status =
                    (IF response.confidence >= 75 THEN DONE ELSE FLAGGED)
             /\ chunks'[pending[i]].translated = response.translation
             /\ chunks'[pending[i]].model_used = response.model_used
             /\ chunks'[pending[i]].confidence = response.confidence
             /\ \A k \in 1..Len(chunks) : k # pending[i] => chunks'[k] = chunks[k]]_vars

C6_Witness ==
    /\ pc = "extract"
    /\ chunks[pending[i]].status = DONE
    /\ chunks[pending[i]].confidence = 75
    /\ chunks[pending[i]].translated = "T"
    /\ \E k \in 1..Len(chunks) :
          chunks[k].status = FLAGGED /\ chunks[k].confidence = 74 /\ chunks[k].flags = <<>>

\* C7: an exception other than AllModelsExhausted raised while a chunk is processed
\* sets that chunk to FLAGGED with a flag made of the exception's type and message,
\* stays inside the run, and the loop goes on with the next pending chunk.
C7_ExceptionFlagsChunk ==
    /\ [](pc = "flag" => (exc.type # NULL /\ exc.type # "AllModelsExhaustedError"))
    /\ [][(pc = "flag" /\ pc' \notin {"flag", "idle"})
          => /\ chunks'[pending[i]].status = FLAGGED
             /\ chunks'[pending[i]].flags = <<<<"error", exc.type, exc.msg>>>>
             /\ \A k \in 1..Len(chunks) : k # pending[i] => chunks'[k] = chunks[k]
             /\ pc' = "loop"
             /\ pending' = pending
             /\ i' = i + 1]_vars
    /\ [][(pc = "loop" /\ pc' \notin {"loop", "idle"})
          => IF i <= Len(pending)
             THEN pc' = "router" /\ routerFor' = "translate" /\ trCalls'[pending[i]] = 1
             ELSE pc' = "reconstruct"]_vars

C7_Witness ==
    /\ outcome = "returned"
    /\ Len(chunks) = 2
    /\ chunks[1].status = FLAGGED
    /\ chunks[1].flags = <<<<"error", "BadRequestError", "rejected">>>>
    /\ chunks[2].status = DONE
    /\ trCalls = <<1, 1>>

\* C8: when Router.translate returns, the response is that of the first adapter in
\* priority order that reported itself available and whose translate did not raise;
\* translate is never called on an adapter that reported unavailable, nor on any
\* adapter after the one that succeeded.
C8_FirstWorkingAdapter ==
    /\ \A k \in 1..Len(calls) :
          /\ calls[k].model = k
          /\ calls[k].result # "none" => calls[k].available
          /\ ~calls[k].available => calls[k].result = "none"
          /\ calls[k].result = "ok" => (k = Len(calls) /\ routerResult = "returned")
    /\ routerResult = "returned"
          => /\ Len(calls) >= 1
             /\ calls[Len(calls)].result = "ok"
             /\ \A k \in 1..(Len(calls) - 1) :
                   calls[k].result \in {"none", "retryable", "other"}
             /\ response.model_used = Models[calls[Len(calls)].model]

C8_Witness ==
    /\ routerResult = "returned"
    /\ Len(calls) = 2
    /\ ~calls[1].available
    /\ calls[1].result = "none"
    /\ calls[2].result = "ok"
    /\ response.model_used = Models[2]

\* C9, as stated: when an adapter's translate fails with a retryable error or with any
\* other error that is not a content error, the adapter's cooldown is set and the router
\* goes on with the next adapter.
C9_AnyFailureSetsCooldown ==
    [][(pc = "router" /\ Len(calls') = Len(calls) + 1
        /\ calls'[Len(calls')].result \in {"retryable", "other"})
       => /\ unavailable_until'[routerJ] = now + CooldownSeconds
          /\ routerJ' = routerJ + 1
          /\ pc' = "router"]_vars

\* C9, amended: when an adapter's translate fails with a retryable error its cooldown
\* is set to now + 300 s; when it fails with another error that is not a content error
\* no cooldown is set; in both cases the router goes on with the next adapter.
C9_RetryableSetsCooldown ==
    [][(pc = "router" /\ Len(calls') = Len(calls) + 1
        /\ calls'[Len(calls')].result \in {"retryable", "other"})
       => /\ unavailable_until'[routerJ] =
                 (IF calls'[Len(calls')].result = "retryable"
                  THEN now + 300 ELSE NoCooldown)
          /\ \A m \in 1..NModels : m # routerJ => unavailable_until'[m] = unavailable_until[m]
          /\ routerJ' = routerJ + 1
          /\ pc' = "router"]_vars

C9_Witness ==
    /\ pc = "router"
    /\ Len(calls) = 2
    /\ calls[1].result = "retryable"
    /\ calls[2].result = "other"
    /\ unavailable_until[1] = now + 300
    /\ unavailable_until[2] = NoCooldown
    /\ routerJ = 3

\* C10: when an adapter's translate raises a content error, Router.translate re-raises
\* that error at once and calls no adapter of lower priority for the request.
C10_ContentErrorPropagates ==
    /\ \A k \in 1..Len(calls) :
          calls[k].result = "content"
             => /\ k = Len(calls)
                /\ routerResult = "content_error"
                /\ pc # "router"
                /\ exc.type = calls[k].err
    /\ routerResult = "content_error"
          => (Len(calls) >= 1 /\ calls[Len(calls)].result = "content")

C10_Witness ==
    /\ routerResult = "content_error"
    /\ pc = "idle"
    /\ Len(calls) = 1
    /\ calls[1].result = "content"
    /\ exc.type = "BadRequestError"
    /\ is_available(2)

\* C11: a call of Router.translate ends with AllModelsExhausted if and only if every
\* adapter of the priority list was, during that call, either unavailable or called
\* and failed with an error that is not a content error.
C11_ExhaustedIffAllPassed ==
    /\ pc = "router" => routerResult = NULL
    /\ (pc = "idle" /\ routerResult # NULL)
          => (routerResult = "AllModelsExhausted"
                <=> /\ Len(calls) = NModels
                    /\ \A k \in 1..NModels :
                          \/ (~calls[k].available /\ calls[k].result = "none")
                          \/ (calls[k].available
                                /\ calls[k].result \in {"retryable", "other"}))

C11_Witness ==
    /\ pc = "idle"
    /\ routerResult = "AllModelsExhausted"
    /\ ~calls[1].available
    /\ calls[2].result = "other"

\* C12: a retryable failure of an adapter at time t sets its cooldown to t + 300; as long
\* as the process lives the cooldown stays until a query at or after t + 300; every
\* query of is_available made before t + 300 answers false whatever the quota, and
\* every query from t + 300 on answers by today's usage against the daily limit alone.
C12_CooldownWindow ==
    /\ [][(pc = "router" /\ Len(calls') = Len(calls) + 1
           /\ calls'[Len(calls')].result = "retryable")
          => unavailable_until'[routerJ] = now + 300]_vars
    /\ [][~Restart
          => \A m \in 1..NModels :
                (unavailable_until[m] # NoCooldown /\ now' < unavailable_until[m])
                   => unavailable_until'[m] = unavailable_until[m]]_vars
    /\ [][(pc = "router" /\ Len(calls') = Len(calls) + 1)
          => calls'[Len(calls')].available =
                (IF unavailable_until[routerJ] # NoCooldown
                    /\ now < unavailable_until[routerJ]
                 THEN FALSE
                 ELSE quota[routerJ] < DailyTokenLimit[routerJ])]_vars

C12_Witness ==
    /\ now = 300
    /\ Len(calls) = 2
    /\ ~calls[1].available
    /\ quota[1] = 0
    /\ unavailable_until[1] = 600
    /\ calls[2].available
    /\ calls[2].result = "ok"
    /\ unavailable_until[2] = NoCooldown
    /\ quota[2] = 1

\* C13: the daily budget is enforced before each model call: whenever the router
\* consults an adapter whose recorded usage for today is greater than or equal to its
\* daily_token_limit, the adapter reports unavailable, its translate is not invoked
\* (no outcome, no tokens recorded) and the router passes to the next adapter.
C13_BudgetBeforeCall ==
    [][(pc = "router" /\ Len(calls') = Len(calls) + 1
        /\ quota[routerJ] >= DailyTokenLimit[routerJ])
       => /\ ~calls'[Len(calls')].available
          /\ calls'[Len(calls')].result = "none"
          /\ calls'[Len(calls')].model = routerJ
          /\ quota' = quota
          /\ pc' = "router"
          /\ routerJ' = routerJ + 1]_vars

C13_Witness ==
    /\ Len(calls) = 2
    /\ ~calls[1].available
    /\ calls[1].result = "none"
    /\ unavailable_until[1] = NoCooldown
    /\ quota[1] >= DailyTokenLimit[1]
    /\ calls[2].result = "retryable"

\* C14: for every interleaving of add_token_usage calls of the processes sharing the
\* database, the stored tokens_used of each (model, today) equals the sum of all the
\* increments passed so far, whatever their order: no increment is lost.
C14_UsageIsSumOfIncrements ==
    /\ [](\A m \in 1..NModels : sharedDb.quota[m] = tokensAdded[m])
    /\ [][\A m \in 1..NModels :
             sharedDb'.quota[m] - sharedDb.quota[m] = tokensAdded'[m] - tokensAdded[m]]_vars

C14_Witness ==
    /\ sharedDb.quota[1] = 2
    /\ sharedDb.quota[2] = 1
    /\ tokensAdded = <<2, 1>>

\* C15: under any interleaving of save_bible calls on one book by the processes sharing
\* the database, no two stored bible rows carry the same version, and every save stores
\* (and returns) a version strictly greater than every version committed before it:
\* the rows, in commit order, have strictly increasing versions.
C15_VersionsStrictlyIncreasing ==
    \A j \in 1..Len(sharedDb.bible), k \in 1..Len(sharedDb.bible) :
        j < k => sharedDb.bible[j] < sharedDb.bible[k]

\* C17: save_chunks is idempotent. Every call leaves each existing chunk row (status,
\* translation, confidence, flags, model) unchanged; a call whose chunks are all
\* stored already adds no row; and repeating the call just made changes nothing.
C17_SaveChunksIdempotent ==
    [][\A p \in Sessions : SaveChunks(p) =>
          \E n \in 1..MaxChunks :
              /\ sharedDb'.chunks = save_chunks(sharedDb.chunks, n)
              /\ \A k \in 1..Len(sharedDb.chunks) : sharedDb'.chunks[k] = sharedDb.chunks[k]
              /\ n <= Len(sharedDb.chunks) => sharedDb'.chunks = sharedDb.chunks
              /\ save_chunks(sharedDb'.chunks, n) = sharedDb'.chunks]_vars

C17_Witness ==
    /\ resaved
    /\ Len(sharedDb.chunks) = MaxChunks
    /\ sharedDb.chunks[1].status = DONE
    /\ sharedDb.chunks[1].translated = "T"
    /\ sharedDb.chunks[2].status = FLAGGED
    /\ sharedDb.chunks[2].flags # <<>>

\* C18: for any interleaving of runs over the same input, at most one book row exists
\* for the content hash, and every run that has finished its identification step
\* operates on that row: it created it or it resumed it, and it did not fail.
C18_OneBookEveryRunResumes ==
    /\ Cardinality({b \in 1..Len(sharedDb.books) : sharedDb.books[b].file_hash = TheHash}) <= 1
    /\ \A p \in Sessions :
          sessions[p].pc \in {"idle", "save_bible", "failed"}
              => /\ sessions[p].outcome \in {"created", "resumed"}
                 /\ BookRowExists

C19_BibleBounds ==
    /\ Cardinality(DOMAIN bible.glossary) <= 600
    /\ Cardinality(DOMAIN bible.characters) <= 240
    /\ Len(bible.decisions) <= 18
    /\ TextLen(bible.last_scene) <= 420

C19_Witness ==
    /\ last_update = 2
    /\ Cardinality(DOMAIN bible.glossary) = 600
    /\ Cardinality(DOMAIN bible.characters) = 240
    /\ Len(bible.decisions) = 18
    /\ TextLen(bible.last_scene) = 420

\* C20: once a glossary term has a translation in the bible, no later apply of any
\* update changes or removes that term's translation.
C20_GlossaryNeverOverwritten ==
    [][\A t \in DOMAIN bible.glossary :
          /\ t \in DOMAIN bible'.glossary
          /\ bible'.glossary[t] = bible.glossary[t]]_vars

C20_Witness ==
    /\ last_update = 2
    /\ 350 \in DOMAIN bible.glossary
    /\ bible.glossary[350] = "A"
    /\ bible.glossary[450] = "B"

C22_VoiceChangesOnlyFromDefault ==
    [][bible'.voice # bible.voice
          => (bible.voice = _DEFAULT_VOICE \/ bible.voice = <<>>)]_vars

\* C23: after the orchestrator has merged a chunk's local and extracted updates and
\* applied the result, no name of the extractor's rejected list is among the
\* bible's characters.
C23_RejectedAbsentAfterMergeApply ==
    last_extracted # 0
        => \A name \in Range(Extractions[last_extracted].update.rejected) :
              name \notin DOMAIN bible.characters

C23_Witness ==
    /\ applies = 2
    /\ last_extracted = 4
    /\ 5 \notin DOMAIN bible.characters
    /\ 7 \in DOMAIN bible.characters
    /\ 9 \in DOMAIN bible.characters

\* ------------------------------------------------------------------
\* Chunker properties
\* ------------------------------------------------------------------
RECURSIVE WordsOfLine(_, _)
\* words of input line `id` found in a text
WordsOfLine(text, id) ==
    IF text = <<>> THEN 0
    ELSE (IF Head(text).id = id THEN Head(text).words ELSE 0) + WordsOfLine(Tail(text), id)

RECURSIVE WordsOfLineInChunks(_, _)
WordsOfLineInChunks(all_chunks, id) ==
    IF all_chunks = <<>> THEN 0
    ELSE WordsOfLine(Head(all_chunks).original, id) + WordsOfLineInChunks(Tail(all_chunks), id)

\* number of chapter headings at or before input line `id`
ChapterOf(lines, id) == Cardinality({k \in 1..id : lines[k].kind = "chapter"})

\* the input lines a chunk's text is made of
LinesIn(ch) == {ch.original[k].id : k \in 1..Len(ch.original)} \ {0}

\* a paragraph separator written by the normalizer is part of the chunk's text
HasJoin(ch) == \E k \in 1..Len(ch.original) : ch.original[k] = ParagraphBreak

\* the chunk is one sentence: no paragraph break and no sentence end inside it
SingleUnit(ch) ==
    /\ Len(SplitParagraphs(ch.original, <<>>)) = 1
    /\ Len(SplitSentences(ch.original, <<>>)) = 1

\* C24: after the chunker ran, every word of the input is in the chunks'
\* original text exactly as often as in the input: each input line's words
\* are found once, and the chunks hold no other word.
C24_NoWordLostOrDuplicated ==
    chunker.done =>
        /\ \A id \in 1..Len(chunker.lines) :
              WordsOfLineInChunks(chunker.all_chunks, id) = chunker.lines[id].words
        /\ \A k \in 1..Len(chunker.all_chunks) :
              LinesIn(chunker.all_chunks[k]) \subseteq 1..Len(chunker.lines)

\* a five-line text with a chapter was cut into segments, an oversized
\* segment was split and two pieces were joined into one chunk
C24_Witness ==
    /\ chunker.done
    /\ Len(chunker.lines) = 5
    /\ \E k \in 1..5 : chunker.lines[k].kind = "chapter"
    /\ Len(detect(chunker.lines)) >= 2
    /\ \E k \in 1..Len(detect(chunker.lines)) :
          detect(chunker.lines)[k].token_estimated > chunker.config.max_tokens
    /\ Len(chunker.all_chunks) >= 3
    /\ \E k \in 1..Len(chunker.all_chunks) : HasJoin(chunker.all_chunks[k])

\* C25: every produced chunk other than the first and the last has
\* token_estimated between min_tokens and max_tokens inclusive.
C25_MiddleChunksInRange ==
    chunker.done =>
        \A k \in 2..(Len(chunker.all_chunks) - 1) :
            /\ chunker.all_chunks[k].token_estimated >= chunker.config.min_tokens
            /\ chunker.all_chunks[k].token_estimated <= chunker.config.max_tokens

\* C26: a produced chunk exceeds max_tokens only if it is a single
\* indivisible unit (one sentence); a chunk packed from several paragraphs
\* or sentences, or merged from small segments, stays within max_tokens.
C26_OnlySingleUnitsExceedMax ==
    chunker.done =>
        \A k \in 1..Len(chunker.all_chunks) :
            chunker.all_chunks[k].token_estimated > chunker.config.max_tokens
                => SingleUnit(chunker.all_chunks[k])

\* C27: no produced chunk holds text from both sides of a chapter boundary.
C27_NoChunkCrossesChapter ==
    chunker.done =>
        \A k \in 1..Len(chunker.all_chunks) :
            \A a, b \in LinesIn(chunker.all_chunks[k]) :
                ChapterOf(chunker.lines, a) = ChapterOf(chunker.lines, b)

\* ------------------------------------------------------------------
\* Parser, command line and extractor properties
\* ------------------------------------------------------------------
\* none of the three matchers of parse_model_response yields a JSON object
NoMatcherParses(raw_text) ==
    LET text == strip(raw_text) IN
    /\ ~DictTruthy(_try_parse(text))
    /\ ~DictTruthy(_try_parse(_MARKDOWN_JSON_RE_search(text).group))
    /\ ~DictTruthy(_try_parse(_BARE_JSON_RE_search(text).group))

translate_exit_code(how) ==
    IF how = "AllModelsExhausted" THEN 2
    ELSE IF how \in {"returned", "BookAlreadyDone", "interrupted"} THEN 0
    ELSE 1

\* C29: when a translate command has stopped because all models were
\* exhausted at a chunk's translation, the process exits with code 2.
C29_ExhaustedExitsWithTwo ==
    (mode = "translate" /\ pc = "idle" /\ outcome # NULL /\ ameChunk # 0)
        => translate_exit_code(outcome) = 2

\* C30 as stated: at every extract call the model is queried if and only if
\* the chunk is the first of the book, or force is set, or the notes hold a
\* keyword, or at least N chunks have passed since the model was last queried;
\* and after every query that returned, the chunks-since-last counter is 0.
C30_QueriesExactlyWhenTriggered ==
    extractor.calls > 0 =>
        /\ extractor.last.queried <=>
              \/ extractor.last.chunk_index = 0
              \/ extractor.last.force
              \/ extractor.last.keyword
              \/ extractor.last.passed >= _EXTRACT_EVERY_N
        /\ extractor.last.returned => extractor.counter = 0

\* C30: at every extract call of one extractor object the model is queried if
\* and only if the chunk is the first of the book, or force is set, or the
\* notes hold a keyword, or at least N chunks with none of these three
\* conditions have been seen since the last query that returned (since the
\* object was built, if none returned), this chunk included; and after every
\* query that returned, the chunks-since-last counter is 0.
C30_QueriesExactlyWhenCounterReachesN ==
    extractor.calls > 0 =>
        /\ extractor.last.queried <=>
              \/ extractor.last.chunk_index = 0
              \/ extractor.last.force
              \/ extractor.last.keyword
              \/ extractor.last.plain_passed >= _EXTRACT_EVERY_N
        /\ extractor.last.returned => extractor.counter = 0

\* the query at chunk 5 raised; chunk 6, with no other trigger, was queried
\* one chunk later, the query returned and the counter is 0
C30_Witness ==
    /\ extractor.calls = 7
    /\ extractor.last.chunk_index = 6
    /\ ~extractor.last.keyword
    /\ ~extractor.last.force
    /\ extractor.last.passed = 1
    /\ extractor.last.plain_passed = 6
    /\ extractor.last.queried
    /\ extractor.last.returned
    /\ extractor.counter = 0

C32_NeverBackToPending ==
    [][\A k \in 1..Len(chunks) :
          chunks[k].status \in {DONE, FLAGGED}
          => /\ k <= Len(chunks')
             /\ chunks'[k].status \in {DONE, FLAGGED}]_vars

C32_Witness ==
    /\ was_resumed
    /\ outcome = NULL
    /\ pc = "loop"
    /\ Len(chunks) = 2
    /\ chunks[1].status = DONE
    /\ chunks[2].status = FLAGGED
    /\ chunks[2].translated # NULL
    /\ chunks[2].flags # <<>>

\* the parts of the manuscript that are not the break inserted between sections
TextParts == SelectSeq(reconstructor.parts, LAMBDA part : part # BlankLines)

\* number of parts that precede the text of row k
PartsBefore(k) ==
    (k - 1) + Cardinality({j \in 1..(k - 1) :
                              reconstructor.rows[j].source_section
                                  # reconstructor.rows[j + 1].source_section})

\* C33: the manuscript built from a book's rows has exactly one text part per stored
\* chunk, in ascending chunk_index order; each is the translation when there is one,
\* else the original behind the review marker when the chunk is FLAGGED, else the
\* original; one extra break part stands between two consecutive chunks exactly when
\* their source_section differs, and the file is the parts joined by blank lines.
C33_OnePartPerChunkInOrder ==
    (reconstructor.built /\ ~reconstructor.raised)
    => LET rows == reconstructor.rows
           parts == reconstructor.parts
       IN /\ Len(TextParts) = Len(rows)
          /\ \A k \in 1..Len(rows) :
                /\ rows[k].chunk_index = k - 1
                /\ TextParts[k] =
                      (IF ~rows[k].translated.none /\ rows[k].translated.text # <<>>
                       THEN rows[k].translated.text
                       ELSE IF rows[k].status = FLAGGED
                            THEN <<W("PENDIENTE DE REVISION", 1), S(1), W("original", k)>>
                            ELSE <<W("original", k)>>)
                /\ parts[PartsBefore(k) + 1] = TextParts[k]
          /\ Len(parts) = PartsBefore(Len(rows)) + 1
          /\ \A k \in 1..(Len(rows) - 1) :
                (rows[k].source_section # rows[k + 1].source_section)
                <=> parts[PartsBefore(k) + 2] = BlankLines
          /\ TextLen(reconstructor.output)
                = SumTo([p \in 1..Len(parts) |-> TextLen(parts[p])], Len(parts))
                  + 2 * (Len(parts) - 1)

C33_Witness ==
    /\ reconstructor.built
    /\ Len(reconstructor.rows) = 3
    /\ reconstructor.rows[1].status = DONE
    /\ reconstructor.rows[2].status = FLAGGED
    /\ reconstructor.rows[2].translated.none
    /\ reconstructor.rows[3].status = PENDING
    /\ reconstructor.rows[1].source_section = reconstructor.rows[2].source_section
    /\ reconstructor.rows[2].source_section # reconstructor.rows[3].source_section
    /\ reconstructor.parts = <<TranslationOf(1), _REVIEW_MARKER \o OriginalOf(2),
                               BlankLines, OriginalOf(3)>>

\* the process ends and a new one starts: between two invocations, or by an
\* interruption of the running one
ProcessRestarts ==
    \/ pc # "idle" /\ pc' = "idle" /\ outcome' = "interrupted"
    \/ /\ pc = "idle" /\ pc' = "idle"
       /\ <<unavailable_until, since_last_extract>>'
              # <<unavailable_until, since_last_extract>>

\* C34: a restart of the process clears every adapter's cooldown and leaves today's
\* stored token usage as it was, so right after a restart an adapter is available
\* exactly when its persisted usage of the day is below its daily limit.
C34_RestartClearsCooldownsKeepsUsage ==
    [][ProcessRestarts
       => /\ \A m \in 1..NModels : unavailable_until'[m] = NoCooldown
          /\ quota' = quota
          /\ \A m \in 1..NModels :
                is_available(m)' <=> (quota[m] < DailyTokenLimit[m])]_vars

C34_Witness ==
    /\ pc = "idle"
    /\ now = 0
    /\ \E c \in 1..Len(calls) : calls[c].model = 1 /\ calls[c].result = "retryable"
    /\ unavailable_until = FreshCooldowns
    /\ quota[1] < DailyTokenLimit[1]
    /\ quota[2] >= DailyTokenLimit[2]
    /\ is_available(1)
    /\ ~is_available(2)

\* C35, as stated: a run in which the router never raises AllModelsExhausted ends
\* having sent each chunk that was pending to translation exactly once, with no chunk
\* PENDING and the book status DONE, whatever other exceptions its chunks raised.
C35_RunWithoutExhaustionCompletesBook ==
    (pc = "idle" /\ outcome = "returned" /\ ameChunk = 0)
    => /\ \A k \in 1..Len(chunks) :
             trCalls[k] = IF k \in PendingAtStart THEN 1 ELSE 0
       /\ \A k \in 1..Len(chunks) : chunks[k].status \in {DONE, FLAGGED}
       /\ bookStatus = BOOK_DONE

\* C36: the bible versions stored for a book handled by one pipeline are exactly
\* 1, 2, ..., k; version 1 is written when the processing loop is entered for the
\* first time, every chunk processed without an exception adds exactly one version and
\* nothing else adds one; so a book whose loop was entered has a version, even when
\* its first chunk met AllModelsExhausted.
C36_BibleVersionsAreOneToK ==
    /\ [](\A v \in 1..Len(bibleRows) : bibleRows[v] = v)
    /\ [](((\E k \in 1..Len(chunks) : chunks[k].status # PENDING) \/ ameChunk # 0)
            => Len(bibleRows) >= 1)
    /\ [][(pc = "load_bible" /\ pc' = "loop")
          => bibleRows' = IF bibleRows = <<>> THEN <<1>> ELSE bibleRows]_vars
    /\ [][(pc = "apply_bible" /\ pc' = "loop")
          => /\ Len(bibleRows') = Len(bibleRows) + 1
             /\ chunks'[pending[i]].flags = <<>>]_vars
    /\ [][bibleRows' # bibleRows
          => \/ pc = "load_bible" /\ pc' = "loop" /\ bibleRows = <<>>
             \/ pc = "apply_bible" /\ pc' = "loop"]_vars

C36_Witness ==
    /\ pc = "idle"
    /\ outcome = "returned"
    /\ ameChunk = 1
    /\ startStatus = <<PENDING, PENDING>>
    /\ chunks[1].status = PENDING
    /\ bibleRows = <<1>>

\* C37, as stated: every chunk stored with status DONE has a non-empty translated text.
C37_DoneHasTranslation ==
    \A k \in 1..Len(parser.rows) :
        parser.rows[k].status = DONE => parser.rows[k].translated # <<>>

\* C38, as stated: in the pipeline the factory builds, where the extractor queries
\* the same router and adapters as the translation, a provider reply that is exactly
\* the requested extraction JSON yields a bible update that carries the glossary and
\* the characters of that reply.
C38_ExtractionReplyReachesBible ==
    (parser.extracted /\ strip(parser.raw_text) = <<JsonExtraction>>)
    => /\ parser.update.glossary = ReplyUpdate.glossary
       /\ parser.update.characters = ReplyUpdate.characters

\* C39, as stated: when a run was interrupted after the book row was created and
\* before its chunks were saved, invoking the same command again parses, chunks and
\* processes the input: an invocation that ends (normally or with an error) on a book
\* whose input yields chunks never leaves the book without chunk rows.
C39_InterruptedBeforeChunksStillProcessed ==
    (pc = "idle" /\ bookStatus # NO_BOOK /\ nChunks > 0
     /\ outcome \notin {NULL, "interrupted"})
    => Len(chunks) = nChunks

\* C40: in every state each chunk row agrees with its status: a PENDING row has no
\* translation, no model name and no flag; a DONE row has a confidence of at least
\* 0.75 and a model name; a FLAGGED row has a confidence below 0.75 or at least one flag.
C40_RowConsistentWithStatus ==
    \A k \in 1..Len(chunks) :
        LET row == chunks[k] IN
        /\ row.status \in {PENDING, DONE, FLAGGED}
        /\ row.status = PENDING
              => /\ row.translated = NULL
                 /\ row.model_used = NULL
                 /\ row.flags = <<>>
        /\ row.status = DONE
              => /\ row.confidence # NoConfidence
                 /\ row.confidence >= ConfidenceThreshold
                 /\ row.model_used \in Range(Models)
        /\ row.status = FLAGGED
              => \/ row.confidence # NoConfidence /\ row.confidence < ConfidenceThreshold
                 \/ row.flags # <<>>

C40_Witness ==
    /\ pc = "router"
    /\ routerFor = "translate"
    /\ Len(chunks) = 2
    /\ chunks[1].status = FLAGGED
    /\ chunks[1].confidence = 75
    /\ chunks[1].model_used = "claude"
    /\ chunks[1].flags # <<>>
    /\ chunks[2].status = PENDING

====
